---------------------------- MODULE Spec2Model ----------------------------
(***************************************************************************)
(* Verification model of log-monitor's remote session and streaming layer: *)
(*   - the SSH connection pool      (src/internal/ssh/client.go)           *)
(*   - the Tailer                   (src/internal/ssh/tailer.go)           *)
(*   - the application coordinator  (src/unnamed/part_004, package ui)     *)
(*   - the file operations          (src/unnamed/part_009, package ssh)    *)
(*     and the coordinator's privileged connect built on them              *)
(*   - the viewer's writer          (src/internal/ui/viewer_pane.go)       *)
(* Each component has its own specification (SpecPool, SpecTail, SpecApp,  *)
(* SpecSudo, SpecGate, SpecBorrow, SpecRun, SpecViewer, SpecWriter) over   *)
(* the variables of that component;                                        *)
(* the pure functions ListFiles and FormatSize have SpecListFiles and      *)
(* SpecFormatSize, whose initial states draw the arguments;                *)
(* the variables of the other components stay at their initial values.     *)
(***************************************************************************)
EXTENDS Integers, Sequences, FiniteSets, TLC

(***************************************************************************)
(* Bounds of the model.                                                    *)
(***************************************************************************)
\* number of goroutines that call Pool.GetClient concurrently
MaxCallers == 2
\* number of GetClient calls made in one run
MaxCalls == 3

Callers == 1..MaxCallers
\* number of Stop calls made on the Tailer in one run
MaxStops == 2

\* number of background goroutines the handlers start in one run
MaxTasks == 3

\* every call dials at most once: session identities
Sessions == 1..MaxCalls
NoSession == 0
\* pool keys "user@host:port" (client.go:33): three distinct targets
Keys == {"k1", "k2", "k3"}
\* srv.Auth.Method of each target (part_007:187): k3 is configured with
\* password authentication
AuthMethod(k) == IF k = "k3" THEN "password" ELSE "key"

VARIABLES
    \* ---- Pool (client.go) ----
    clients,      \* Pool.clients: key -> cached session or NoSession
    sessState,    \* per session: "undialed" | "open" | "closed"
    sessKey,      \* per session: the key it was dialed for
    closeCalls,   \* per session: number of Close() calls made on it
    everStored,   \* sessions that some GetClient call has put into clients
    gc,           \* per caller: the local state of its GetClient call
    closeAllDone, \* CloseAll has run
    calls,        \* number of GetClient calls started so far
    \* ---- Tailer (tailer.go) ----
    tl,           \* the Tailer, its background loop and its copy goroutine
    stopPc,       \* a caller of Tailer.Stop: "idle" | "waiting" | "returned"
    stopCalls,    \* number of Stop calls made so far
    \* ---- App, the coordinator (part_004) ----
    mu,             \* holder of App.mu: nobody, shutdown, or a goroutine
    currentServer, currentFolder, currentFile,  \* App's selection, under a.mu
    tailer, tailCtx, tailCancel,  \* App's tail handle, under a.mu (0: nil)
    connectCancel,  \* App.connectCancel, under a.mu (0: nil)
    stopped,        \* App.stopped (atomic)
    tasks,          \* the background goroutines started by the handlers
    tails,          \* the Tailers started by loadAndTailFile, one per task
    pendingGo,      \* goroutines of queueUpdate that have not yet called QueueUpdateDraw
    pane,           \* what the file pane shows (FilePane.mode, files, folders, hasUpDir)
    loopRunning,    \* tview's event loop is running (Run has not returned)
    shutdownPc,     \* position of App.shutdown
    shutdownTailer, \* shutdown's local tailer (line 960)
    \* ---- file operations (part_009) and the privileged connect (part_004) ----
    sudoPasswords,  \* the pool's cached privilege password, per Target
    flow,           \* the loadFilesForFolder goroutine of a privileged Target
    prompt,         \* the password prompt that is open
    sudoUpdates,    \* updates queued by that goroutine, not yet run by the loop
    attempts,       \* number of startConnection calls for privileged Targets
    op,             \* the file operation running on the borrowed *ssh.Client
    clientCloses,   \* Close() calls made on the borrowed *ssh.Client by its borrowers
    \* ---- the viewer (viewer_pane.go) during one load-and-tail (part_004) ----
    textView,       \* the lines the tview.TextView holds: "init" | "stream"
    lineBuf,        \* drawWriter.lineBuf holds a partial line
    pending,        \* drawWriter.pending
    pendingLines,   \* drawWriter.pendingLines
    lineCount,      \* ViewerPane.lineCount
    loadPc,         \* position of loadAndTailFile
    viewUpdates,    \* functions on their way to QueueUpdateDraw
    writes,         \* number of Write calls the Tailer's copy has made
    viewTail,       \* the Tailer of this load: "none" | "streaming"
    viewHandle,     \* a.tailer holds that Tailer
    \* ---- calls of the pure functions of part_009 ----
    lsOutput,       \* ListFiles: the output of ls, a sequence of lines of fields
    lsPatterns,     \* ListFiles: the patterns argument
    lsResult,       \* ListFiles: what it returned
    szInput,        \* FormatSize: its argument
    szResult,       \* FormatSize: what it returned
    fnCalled,       \* the function has returned
    \* ---- one privileged command, step by step (part_009) ----
    px,             \* the execution of runCommand or DownloadFile with a password
    \* ---- the viewer's writer under concurrent Write calls (viewer_pane.go) ----
    writers,        \* the goroutines inside drawWriter.Write
    redraws,        \* callbacks of the writer handed to QueueUpdateDraw and not yet run
    drawing         \* the callback the event loop is running: its lines, or -1

poolVars == <<clients, sessState, sessKey, closeCalls, everStored, gc, closeAllDone, calls>>

tailVars == <<tl, stopPc, stopCalls>>

appVars == <<mu, currentServer, currentFolder, currentFile, tailer, tailCtx, tailCancel,
             connectCancel, stopped, tasks, tails, pendingGo, pane,
             loopRunning, shutdownPc, shutdownTailer>>

cmdVars == <<sudoPasswords, flow, prompt, sudoUpdates, attempts, op, clientCloses>>

viewVars == <<textView, lineBuf, pending, pendingLines, lineCount, loadPc, viewUpdates,
              writes, viewTail, viewHandle>>

fnVars == <<lsOutput, lsPatterns, lsResult, szInput, szResult, fnCalled>>

runVars == <<px>>

dwVars == <<writers, redraws, drawing>>

\* what the actions of one component leave alone
notPool == <<tailVars, appVars, cmdVars, viewVars, fnVars, runVars, dwVars>>
notTail == <<poolVars, appVars, cmdVars, viewVars, fnVars, runVars, dwVars>>
notApp == <<poolVars, tailVars, cmdVars, viewVars, fnVars, runVars, dwVars>>
notCmd == <<poolVars, tailVars, appVars, viewVars, fnVars, runVars, dwVars>>
notView == <<poolVars, tailVars, appVars, cmdVars, fnVars, runVars, dwVars>>
notFn == <<poolVars, tailVars, appVars, cmdVars, viewVars, runVars, dwVars>>
notRun == <<poolVars, tailVars, appVars, cmdVars, viewVars, fnVars, dwVars>>
notWriter == <<poolVars, tailVars, appVars, cmdVars, fnVars, runVars>>

vars == <<clients, sessState, sessKey, closeCalls, everStored, gc, closeAllDone, calls,
          tl, stopPc, stopCalls,
          mu, currentServer, currentFolder, currentFile, tailer, tailCtx, tailCancel,
          connectCancel, stopped, tasks, tails, pendingGo, pane,
          loopRunning, shutdownPc, shutdownTailer,
          sudoPasswords, flow, prompt, sudoUpdates, attempts, op, clientCloses,
          textView, lineBuf, pending, pendingLines, lineCount, loadPc, viewUpdates,
          writes, viewTail, viewHandle,
          lsOutput, lsPatterns, lsResult, szInput, szResult, fnCalled,
          px, writers, redraws, drawing>>

(***************************************************************************)
(* Pool                                                                    *)
(***************************************************************************)
\* A GetClient call that has not started: all locals cleared.
\*   dialed     dial was called;  transport  dial reached DialContext
gcIdle == [pc |-> "idle", key |-> "k1", c |-> NoSession, probe |-> "none",
           cancelled |-> FALSE, dialed |-> FALSE, transport |-> FALSE,
           client |-> NoSession,
           ret |-> NoSession, err |-> "none"]

\* NewPool: an empty cache; no session exists yet.
PoolInit ==
    /\ clients = [k \in Keys |-> NoSession]
    /\ sessState = [s \in Sessions |-> "undialed"]
    /\ sessKey = [s \in Sessions |-> "k1"]
    /\ closeCalls = [s \in Sessions |-> 0]
    /\ everStored = {}
    /\ gc = [t \in Callers |-> gcIdle]
    /\ closeAllDone = FALSE
    /\ calls = 0

\* ssh.Client.Close(): the session is closed; every call is counted.
CloseSession(st, s) == [st EXCEPT ![s] = "closed"]

\* GetClient lines 33-38 and 67-70: compute the key, take the lock, look the
\* key up, release the lock. A hit goes to the keepalive probe with c the
\* cached session; a miss goes to dial.
GetClientLookup(t, k) ==
    /\ gc[t].pc = "idle"
    /\ calls < MaxCalls
    /\ calls' = calls + 1
    /\ gc' = [gc EXCEPT ![t] =
                 [gcIdle EXCEPT !.key = k,
                                !.c = clients[k],
                                !.probe = IF clients[k] # NoSession THEN "pending" ELSE "none",
                                !.pc = IF clients[k] # NoSession THEN "probe" ELSE "dial"]]
    /\ UNCHANGED <<clients, sessState, sessKey, closeCalls, everStored, closeAllDone>>
    /\ UNCHANGED notPool

\* The caller's context is cancelled or reaches its deadline. GetClient reads
\* the context only in the probe's select and in dial (the last time at line
\* 144), so a cancellation at any other point of the call is one seen at the
\* next of these.
CtxCancel(t) ==
    /\ gc[t].pc \in {"probe", "dial", "dialCheck"}
    /\ ~gc[t].cancelled
    /\ gc' = [gc EXCEPT ![t].cancelled = TRUE]
    /\ UNCHANGED <<clients, sessState, sessKey, closeCalls, everStored, closeAllDone, calls>>
    /\ UNCHANGED notPool

\* Lines 43-46: the probe goroutine's SendRequest answers and puts its error
\* into done. A closed session can only answer with an error; an open one may
\* answer nil or an error (the network decides).
KeepaliveReply(t) ==
    /\ gc[t].pc = "probe"
    /\ gc[t].probe = "pending"
    /\ \E r \in (IF sessState[gc[t].c] = "open" THEN {"ok", "err"} ELSE {"err"}) :
           gc' = [gc EXCEPT ![t].probe = r]
    /\ UNCHANGED <<clients, sessState, sessKey, closeCalls, everStored, closeAllDone, calls>>
    /\ UNCHANGED notPool

\* Mutant of KeepaliveOK: a healthy cached session is not returned but
\* replaced by a fresh dial.
KeepaliveOK_Redial(t) ==
    /\ gc[t].pc = "probe"
    /\ gc[t].probe = "ok"
    /\ gc' = [gc EXCEPT ![t].pc = "dial"]
    /\ UNCHANGED <<clients, sessState, sessKey, closeCalls, everStored, closeAllDone, calls>>
    /\ UNCHANGED notPool

\* Lines 48-52: select receives err == nil from done: return the cached c.
KeepaliveOK(t) ==
    /\ gc[t].pc = "probe"
    /\ gc[t].probe = "ok"
    /\ gc' = [gc EXCEPT ![t].pc = "done", ![t].ret = gc[t].c]
    /\ UNCHANGED <<clients, sessState, sessKey, closeCalls, everStored, closeAllDone, calls>>
    /\ UNCHANGED notPool

\* Mutation of KeepaliveCancelled: the cancelled call treats the cached
\* session as dead and closes it before returning the error.
KeepaliveCancelled_Evicts(t) ==
    /\ gc[t].pc = "probe"
    /\ gc[t].cancelled
    /\ sessState' = CloseSession(sessState, gc[t].c)
    /\ closeCalls' = [closeCalls EXCEPT ![gc[t].c] = @ + 1]
    /\ gc' = [gc EXCEPT ![t].pc = "done", ![t].probe = "cancelled", ![t].err = "cancelled"]
    /\ UNCHANGED <<clients, sessKey, everStored, closeAllDone, calls>>
    /\ UNCHANGED notPool

\* Lines 54-56: select takes ctx.Done(): return ctx.Err(), no dial.
KeepaliveCancelled(t) ==
    /\ gc[t].pc = "probe"
    /\ gc[t].cancelled
    /\ gc' = [gc EXCEPT ![t].pc = "done", ![t].probe = "cancelled", ![t].err = "cancelled"]
    /\ UNCHANGED <<clients, sessState, sessKey, closeCalls, everStored, closeAllDone, calls>>
    /\ UNCHANGED notPool

\* Lines 48-53 with err != nil: the probe answered with an error; fall out of
\* the select to the eviction.
KeepaliveFailed(t) ==
    /\ gc[t].pc = "probe"
    /\ gc[t].probe = "err"
    /\ gc' = [gc EXCEPT ![t].pc = "close"]
    /\ UNCHANGED <<clients, sessState, sessKey, closeCalls, everStored, closeAllDone, calls>>
    /\ UNCHANGED notPool

\* Lines 57-58: the 5 s timer fires (whatever the probe has or has not
\* answered: select picks among the ready cases); fall out to the eviction.
KeepaliveTimeout(t) ==
    /\ gc[t].pc = "probe"
    /\ gc' = [gc EXCEPT ![t].pc = "close", ![t].probe = "timeout"]
    /\ UNCHANGED <<clients, sessState, sessKey, closeCalls, everStored, closeAllDone, calls>>
    /\ UNCHANGED notPool

\* Line 61: c.Close(), outside the lock and without looking at the cache.
EvictClose(t) ==
    /\ gc[t].pc = "close"
    /\ sessState' = CloseSession(sessState, gc[t].c)
    /\ closeCalls' = [closeCalls EXCEPT ![gc[t].c] = @ + 1]
    /\ gc' = [gc EXCEPT ![t].pc = "evict"]
    /\ UNCHANGED <<clients, sessKey, everStored, closeAllDone, calls>>
    /\ UNCHANGED notPool

\* mutation of EvictDelete: the entry of the key is deleted whatever it holds
EvictDelete_Unconditional(t) ==
    /\ gc[t].pc = "evict"
    /\ clients' = [clients EXCEPT ![gc[t].key] = NoSession]
    /\ gc' = [gc EXCEPT ![t].pc = "dial"]
    /\ UNCHANGED <<sessState, sessKey, closeCalls, everStored, closeAllDone, calls>>
    /\ UNCHANGED notPool

\* Lines 62-66: under the lock, delete the entry if it still holds c.
EvictDelete(t) ==
    /\ gc[t].pc = "evict"
    /\ clients' = IF clients[gc[t].key] = gc[t].c
                  THEN [clients EXCEPT ![gc[t].key] = NoSession]
                  ELSE clients
    /\ gc' = [gc EXCEPT ![t].pc = "dial"]
    /\ UNCHANGED <<sessState, sessKey, closeCalls, everStored, closeAllDone, calls>>
    /\ UNCHANGED notPool

\* mutation of buildAuth: the password method is set up like a key
buildAuth_AcceptsPassword(method) ==
    IF method \in {"key", "agent", "password"} THEN {"nil", "setup"} ELSE {"unknown"}

\* buildAuth (lines 158-191), the errors it can return for a method: a key or
\* an agent is set up (nil) or cannot be read or reached; the password
\* method and an unknown method are always an error.
buildAuth(method) ==
    IF method \in {"key", "agent"} THEN {"nil", "setup"}
    ELSE IF method = "password" THEN {"unsupported"}
    ELSE {"unknown"}

\* The sessions dial has not used yet.
FreshSessions == {s \in Sessions : sessState[s] = "undialed"}

\* dial, lines 86-92: buildAuth returns an error and dial returns it wrapped
\* as "auth setup for ..." before the TCP dial; GetClient returns the error
\* (lines 73-76).  buildAuth does not look at the context.
DialAuthFail(t) ==
    /\ gc[t].pc = "dial"
    /\ buildAuth(AuthMethod(gc[t].key)) # {"nil"}
    /\ gc' = [gc EXCEPT ![t].pc = "done", ![t].dialed = TRUE, ![t].err = "authSetup"]
    /\ UNCHANGED <<clients, sessState, sessKey, closeCalls, everStored, closeAllDone, calls>>
    /\ UNCHANGED notPool

\* dial, lines 86-140: auth set up, TCP connected and the handshake completed:
\* a new open connection exists.  (A context cancelled during the handshake
\* closes the TCP connection, lines 120-127, which fails the handshake unless
\* it completes first.)
DialOK(t) ==
    /\ gc[t].pc = "dial"
    /\ "nil" \in buildAuth(AuthMethod(gc[t].key))
    /\ FreshSessions # {}
    /\ LET s == CHOOSE x \in FreshSessions : \A y \in FreshSessions : x <= y IN
         /\ sessState' = [sessState EXCEPT ![s] = "open"]
         /\ sessKey' = [sessKey EXCEPT ![s] = gc[t].key]
         /\ gc' = [gc EXCEPT ![t].pc = "dialCheck", ![t].client = s, ![t].dialed = TRUE,
                           ![t].transport = TRUE]
    /\ UNCHANGED <<clients, closeCalls, everStored, closeAllDone, calls>>
    /\ UNCHANGED notPool

\* Mutation of DialCtxCheck: the context is not looked at again after the
\* handshake.
DialCtxCheck_NoRecheck(t) ==
    /\ gc[t].pc = "dialCheck"
    /\ gc' = [gc EXCEPT ![t].pc = "store"]
    /\ UNCHANGED <<clients, sessState, sessKey, closeCalls, everStored, closeAllDone, calls>>
    /\ UNCHANGED notPool

\* dial, lines 142-153: if ctx.Err() != nil the new connection is closed and
\* dial fails (GetClient returns the error, lines 73-76); otherwise dial
\* returns the client.
DialCtxCheck(t) ==
    /\ gc[t].pc = "dialCheck"
    /\ IF gc[t].cancelled
       THEN /\ sessState' = CloseSession(sessState, gc[t].client)
            /\ closeCalls' = [closeCalls EXCEPT ![gc[t].client] = @ + 1]
            /\ gc' = [gc EXCEPT ![t].pc = "done", ![t].err = "cancelled"]
       ELSE /\ gc' = [gc EXCEPT ![t].pc = "store"]
            /\ UNCHANGED <<sessState, closeCalls>>
    /\ UNCHANGED <<clients, sessKey, everStored, closeAllDone, calls>>
    /\ UNCHANGED notPool

\* dial fails after buildAuth, before a connection is established (lines
\* 107-113, 132-139) and GetClient returns the error (lines 73-76): nothing is cached.
\* A cancelled context fails the dial with the context's error; other
\* failures need no cancellation.
DialFail(t) ==
    /\ gc[t].pc = "dial"
    /\ "nil" \in buildAuth(AuthMethod(gc[t].key))
    /\ gc' = [gc EXCEPT ![t].pc = "done", ![t].dialed = TRUE, ![t].transport = TRUE,
                        ![t].err = IF gc[t].cancelled THEN "cancelled" ELSE "failed"]
    /\ UNCHANGED <<clients, sessState, sessKey, closeCalls, everStored, closeAllDone, calls>>
    /\ UNCHANGED notPool

\* Mutation of StoreClient: the lock is held by every call that is inside its
\* keepalive probe, so the store waits for all probes to end.
StoreClient_BehindProbes(t) ==
    /\ gc[t].pc = "store"
    /\ \A u \in Callers : gc[u].pc # "probe"
    /\ clients' = [clients EXCEPT ![gc[t].key] = gc[t].client]
    /\ everStored' = everStored \cup {gc[t].client}
    /\ gc' = [gc EXCEPT ![t].pc = "done", ![t].ret = gc[t].client]
    /\ UNCHANGED <<sessState, sessKey, closeCalls, closeAllDone, calls>>
    /\ UNCHANGED notPool

\* Lines 79-83: under the lock, p.clients[key] = client; return client.
StoreClient(t) ==
    /\ gc[t].pc = "store"
    /\ clients' = [clients EXCEPT ![gc[t].key] = gc[t].client]
    /\ everStored' = everStored \cup {gc[t].client}
    /\ gc' = [gc EXCEPT ![t].pc = "done", ![t].ret = gc[t].client]
    /\ UNCHANGED <<sessState, sessKey, closeCalls, closeAllDone, calls>>
    /\ UNCHANGED notPool

\* The caller has taken the result; it may call GetClient again.
GetClientReturn(t) ==
    /\ gc[t].pc = "done"
    /\ gc' = [gc EXCEPT ![t] = gcIdle]
    /\ UNCHANGED <<clients, sessState, sessKey, closeCalls, everStored, closeAllDone, calls>>
    /\ UNCHANGED notPool

\* One call of GetClient by caller t, step by step.
GetClient(t) ==
    \/ \E k \in Keys : GetClientLookup(t, k)
    \/ CtxCancel(t)
    \/ KeepaliveReply(t)
    \/ KeepaliveOK(t)
    \/ KeepaliveCancelled(t)
    \/ KeepaliveFailed(t)
    \/ KeepaliveTimeout(t)
    \/ EvictClose(t)
    \/ EvictDelete(t)
    \/ DialAuthFail(t)
    \/ DialOK(t)
    \/ DialCtxCheck(t)
    \/ DialFail(t)
    \/ StoreClient(t)
    \/ GetClientReturn(t)

\* Mutation of CloseAllLocked: the sessions are closed but their entries stay
\* in the map.
CloseAllLocked_KeepsEntries ==
    /\ ~closeAllDone
    /\ closeAllDone' = TRUE
    /\ sessState' = [s \in Sessions |->
                        IF \E k \in Keys : clients[k] = s THEN "closed" ELSE sessState[s]]
    /\ closeCalls' = [s \in Sessions |->
                        IF \E k \in Keys : clients[k] = s THEN closeCalls[s] + 1
                        ELSE closeCalls[s]]
    /\ UNCHANGED <<clients, sessKey, everStored, gc, calls>>

\* CloseAll (lines 194-203): under the lock, Close every cached session and
\* delete its entry. Called once, at shutdown.
CloseAllLocked ==
    /\ ~closeAllDone
    /\ closeAllDone' = TRUE
    /\ sessState' = [s \in Sessions |->
                        IF \E k \in Keys : clients[k] = s THEN "closed" ELSE sessState[s]]
    /\ closeCalls' = [s \in Sessions |->
                        IF \E k \in Keys : clients[k] = s THEN closeCalls[s] + 1
                        ELSE closeCalls[s]]
    /\ clients' = [k \in Keys |-> NoSession]
    /\ UNCHANGED <<sessKey, everStored, gc, calls>>

\* CloseAll called on its own.
CloseAll == CloseAllLocked /\ UNCHANGED notPool

PoolNext ==
    \/ \E t \in Callers : GetClient(t)
    \/ CloseAll

(***************************************************************************)
(* Tailer                                                                  *)
(***************************************************************************)
\* The state before StartTail is called.
\*   pc        position of the background goroutine of lines 56-81:
\*             "none" (StartTail not called), "failed" (StartTail returned an
\*             error), "select", "signal", "close",
\*             "callback", "defer", "exited" (t.done closed)
\*   copy      the io.Copy goroutine: "none", "copying", "ended" (its error
\*             is in copyDone)
\*   copyErr   the error io.Copy returned: "nil" (clean end of stream), "err"
\*   ctxDone   the context of line 50 is cancelled
\*   sessOpen  the command channel sess is open
\*   errCallback  t.errCallback: "nil" or "set"
\*   err       t.err: "unset", "nil", "err"
\*   cb        the loop's local copy of errCallback (line 75)
\*   branch    the case the select of line 67 took
\*   ctxAtSelect  whether the context was cancelled when the select ran
\*   signals, closes, cbCalls  calls of sess.Signal, sess.Close, the callback
tlNone == [pc |-> "none", copy |-> "none", copyErr |-> "nil", ctxDone |-> FALSE,
           sessOpen |-> FALSE, errCallback |-> "nil", err |-> "unset", cb |-> "nil",
           branch |-> "none", ctxAtSelect |-> FALSE,
           signals |-> 0, closes |-> 0, cbCalls |-> 0]

TailInit ==
    /\ tl = tlNone
    /\ stopPc = "idle"
    /\ stopCalls = 0

(***************************************************************************)
(* App: configuration and state                                            *)
(***************************************************************************)
\* config.Servers: "A" has the single legacy folder, "B" has two LogFolders.
Servers == {"A", "B"}
\* ServerConfig.EffectiveFolders (part_007:175-184)
EffectiveFolders(srv) == IF srv = "A" THEN {"fa"} ELSE {"fb1", "fb2"}
\* the file names a listing shows
Files == {"f1"}
TaskIds == 1..MaxTasks
NoTask == 0

\* A goroutine slot that no handler has used yet.
\*   kind    "files" (loadFilesForFolder) | "tail" (loadAndTailFile)
\*   origin  "connect" (startConnection) | "refresh" (RefreshFiles) | "file"
\*   ctx     the context passed to loadFilesForFolder: "live" | "cancelled"
\*           | "deadline" ("none" for loadAndTailFile, which makes its own)
taskNone == [kind |-> "none", pc |-> "none", origin |-> "none", srv |-> "none",
             ctx |-> "none"]

\* A goroutine that has returned.
taskDone == [kind |-> "done", pc |-> "done", origin |-> "none", srv |-> "none",
             ctx |-> "none"]

\* A Tailer that has not been started.
\*   state  "none" | "streaming" (the copy writes into the viewer) | "exited"
\*          (the loop has closed t.done)
\*   cancelled  its context is cancelled
tailNone == [state |-> "none", cancelled |-> FALSE]

\* NewApp (lines 69-153): nothing selected, no tail, no connect, loop about to
\* run, empty file pane.
\* the values of App.mu: who holds it
muFree == <<"free", NoTask>>
muShutdown == <<"shutdown", NoTask>>
muTask(i) == <<"task", i>>

AppInit ==
    /\ mu = muFree
    /\ currentServer = "none" /\ currentFolder = "none" /\ currentFile = "none"
    /\ tailer = NoTask /\ tailCtx = NoTask /\ tailCancel = NoTask
    /\ connectCancel = NoTask
    /\ stopped = 0
    /\ tasks = [i \in TaskIds |-> taskNone]
    /\ tails = [i \in TaskIds |-> tailNone]
    /\ pendingGo = {}
    /\ pane = [mode |-> "empty", srv |-> "none", hasUpDir |-> FALSE]
    /\ loopRunning = TRUE
    /\ shutdownPc = "idle"
    /\ shutdownTailer = NoTask

(***************************************************************************)
(* File operations and the privileged connect: configuration and state     *)
(***************************************************************************)
\* the Targets configured with sudo: true, each with one folder
SudoServers == {"S1", "S2"}
\* ServerConfig.EffectiveFolders (part_007:175-184) of these Targets
SudoFolder(srv) == IF srv = "S1" THEN "g1" ELSE "g2"
\* a Target configured with sudo: true and several folders
MultiSudoServer == "S3"
MultiSudoFolders == {"h1", "h2"}
\* what the user may type into the password prompt
Passwords == {"pw1", "pw2"}
\* CommandOpts.SudoPassword when no password is used (part_009:21-23)
NoPassword == ""
\* number of startConnection calls for privileged Targets in one run
MaxAttempts == 3
\* number of Write calls the Tailer's copy makes on the viewer's writer
MaxWrites == 3

\* A text (an error message, a captured stderr) is modelled by the set of the
\* phrases it contains; strings.Contains is membership, and formatting a
\* message around a text with %s, %v or %w keeps every phrase of the text.
Contains(text, phrase) == phrase \in text
\* the markers runCommand looks for in stderr (part_009:203)
SorryTryAgain == "Sorry, try again"
IncorrectPassword == "incorrect password"
\* the message of the authentication failure (part_009:204), which
\* loadFilesForFolder looks for (part_004:700)
SudoAuthFailed == "sudo authentication failed"
\* what the remote command may have written to stderr
Stderrs == {{}, {SorryTryAgain}, {IncorrectPassword}, {"Permission denied"},
            {SudoAuthFailed}}

\* error values: nil, or an error with its message
errNil == [isNil |-> TRUE, text |-> {}]
Errorf(text) == [isNil |-> FALSE, text |-> text]

\* How the remote command went once its channel is open.
\*   o       "pipeErr" (StdinPipe failed), "startErr" (Start failed),
\*           "writeErr" (writing the password failed), "ran" (Wait or
\*           CombinedOutput returned)
\*   exitOK  the command exited with status 0
\*   stderr  what it wrote to stderr
Outcomes ==
    {[o |-> x, exitOK |-> FALSE, stderr |-> {}] : x \in {"pipeErr", "startErr", "writeErr"}}
    \cup {[o |-> "ran", exitOK |-> b, stderr |-> e] : b \in BOOLEAN, e \in Stderrs}
noOutcome == [o |-> "none", exitOK |-> FALSE, stderr |-> {}]

\* No file operation is running.
\*   kind  "list" | "read" | "stat" | "download"
\*   pc    "idle" | "newSession" | "run" | "returned"
\*   pw    opts.SudoPassword
\*   sess  the channel of client.NewSession(): "none" | "open" | "closed"
\*   out   how the command went;  err  the error the operation returned
opIdle == [kind |-> "none", pc |-> "idle", pw |-> NoPassword, sess |-> "none",
           out |-> noOutcome, err |-> errNil]

\* No loadFilesForFolder goroutine is running.
\*   pc   "idle" | "connect" (in GetClient) | "list" (in ListFiles)
\*   pw   opts.SudoPassword as read from the pool (part_004:692-695)
\*   srv, folder  the arguments of loadFilesForFolder
\*   origin  "connect" (startConnection) | "refresh" (RefreshFiles)
flowIdle == [pc |-> "idle", srv |-> "none", folder |-> "none", origin |-> "none",
             pw |-> NoPassword]

\* No password prompt is open.
\*   srv     the Target the prompt's callback was made for
\*   folder, origin  the listing whose failure opened the prompt; origin
\*           "select" for the prompt a selection opens
noPrompt == [srv |-> "none", folder |-> "none", origin |-> "none"]

\* NewPool and NewApp: no password cached, no prompt, nothing queued.
CmdInit ==
    /\ sudoPasswords = [srv \in SudoServers \cup {MultiSudoServer} |-> NoPassword]
    /\ flow = flowIdle
    /\ prompt = noPrompt
    /\ sudoUpdates = {}
    /\ attempts = 0
    /\ op = opIdle
    /\ clientCloses = 0

\* No privileged command is running.
\*   fn     "runCommand" | "DownloadFile"
\*   pc     "idle" | "pipes" | "start" | "write" | "closeStdin" | "copy" |
\*          "wait" | "returned"
\*   pw     opts.SudoPassword
\*   sess   the channel of client.NewSession(): "none" | "open" | "closed"
\*   trace  the calls made on the channel so far, each with its result
\*   stderr what the buffer set as sess.Stderr has captured
\*   err    the error the function returned
pxIdle == [fn |-> "none", pc |-> "idle", pw |-> NoPassword, sess |-> "none",
           trace |-> <<>>, stderr |-> {}, err |-> errNil]

\* no privileged command has been run
RunInit == px = pxIdle

\* the goroutines that may call Write at the same time (the copy goroutines
\* of Tailers that share viewerPane.Writer())
Writers == {1, 2}
\* a goroutine that is not inside Write
\*   pc     "idle" | "emit" (between the two lock sections) | "count"
\*   lines  the complete lines of this call
writerIdle == [pc |-> "idle", lines |-> 0]

\* NewViewerPane (viewer_pane.go:130): nobody writes, nothing queued
WriterInit ==
    /\ writers = [w \in Writers |-> writerIdle]
    /\ redraws = 0
    /\ drawing = -1

\* NewViewerPane (viewer_pane.go:117-146): an empty text view, an empty line
\* buffer, no redraw pending; no file selected yet.
ViewInit ==
    /\ textView = <<>>
    /\ lineBuf = FALSE
    /\ pending = FALSE
    /\ pendingLines = 0
    /\ lineCount = 0
    /\ loadPc = "idle"
    /\ viewUpdates = {}
    /\ writes = 0
    /\ viewTail = "none"
    /\ viewHandle = FALSE

\* The state after construction: an empty pool, no Tailer, NewApp's App, no
\* file operation, an empty viewer.
Components == PoolInit /\ TailInit /\ AppInit /\ CmdInit /\ ViewInit /\ RunInit
              /\ WriterInit

\* no call of ListFiles or FormatSize has been made
FnInit ==
    /\ lsOutput = <<>> /\ lsPatterns = <<>> /\ lsResult = <<>>
    /\ szInput = 0 /\ szResult = ""
    /\ fnCalled = FALSE

Init == Components /\ FnInit

\* StartTail succeeds (lines 33-55, 83): the channel is open, the command is
\* started, the context wraps the caller's (not cancelled yet: TailCtxCancel
\* may follow at once), and the loop and its copy goroutine are launched.
StartTailOK ==
    /\ tl.pc = "none"
    /\ tl' = [tl EXCEPT !.pc = "select", !.copy = "copying", !.sessOpen = TRUE]
    /\ UNCHANGED <<stopPc, stopCalls>>
    /\ UNCHANGED notTail

\* StartTail fails (lines 34-48): no Tailer, no goroutine; where the channel
\* was opened it is closed again.
StartTailFail ==
    /\ tl.pc = "none"
    /\ \E opened \in BOOLEAN :
          tl' = [tl EXCEPT !.pc = "failed", !.closes = IF opened THEN 1 ELSE 0]
    /\ UNCHANGED <<stopPc, stopCalls>>
    /\ UNCHANGED notTail

\* StartTail has returned a Tailer.
TailerExists == tl.pc \notin {"none", "failed"}

\* SetErrCallback (lines 24-28), under t.mu.
SetErrCallback ==
    /\ TailerExists
    /\ tl.errCallback = "nil"
    /\ tl' = [tl EXCEPT !.errCallback = "set"]
    /\ UNCHANGED <<stopPc, stopCalls>>
    /\ UNCHANGED notTail

\* The context given to StartTail is cancelled by its owner (not by Stop).
TailCtxCancel ==
    /\ TailerExists
    /\ ~tl.ctxDone
    /\ tl' = [tl EXCEPT !.ctxDone = TRUE]
    /\ UNCHANGED <<stopPc, stopCalls>>
    /\ UNCHANGED notTail

\* Lines 62-65: io.Copy returns and its error goes into copyDone (buffered).
\* While the channel is open the remote process may exit (nil) or the
\* connection may break (error); reading a closed channel ends the copy too.
CopyEnds ==
    /\ tl.copy = "copying"
    /\ \E e \in {"nil", "err"} :
          tl' = [tl EXCEPT !.copy = "ended", !.copyErr = e]
    /\ UNCHANGED <<stopPc, stopCalls>>
    /\ UNCHANGED notTail

\* Mutant of SelectCtxDone: the cancellation is handled like a stream error
\* (callback invoked, no termination signal).
SelectCtxDone_AsError ==
    /\ tl.pc = "select"
    /\ tl.ctxDone
    /\ tl' = [tl EXCEPT !.pc = "callback", !.branch = "cancel", !.ctxAtSelect = TRUE]
    /\ UNCHANGED <<stopPc, stopCalls>>
    /\ UNCHANGED notTail

\* Lines 67-71: the select takes <-ctx.Done().
SelectCtxDone ==
    /\ tl.pc = "select"
    /\ tl.ctxDone
    /\ tl' = [tl EXCEPT !.pc = "signal", !.branch = "cancel", !.ctxAtSelect = TRUE]
    /\ UNCHANGED <<stopPc, stopCalls>>
    /\ UNCHANGED notTail

\* Line 70: sess.Signal(SIGTERM).
TailSignal ==
    /\ tl.pc = "signal"
    /\ tl' = [tl EXCEPT !.pc = "close", !.signals = @ + 1]
    /\ UNCHANGED <<stopPc, stopCalls>>
    /\ UNCHANGED notTail

\* Line 71: sess.Close().
TailClose ==
    /\ tl.pc = "close"
    /\ tl' = [tl EXCEPT !.pc = "defer", !.sessOpen = FALSE, !.closes = @ + 1]
    /\ UNCHANGED <<stopPc, stopCalls>>
    /\ UNCHANGED notTail

\* Mutant of SelectCopyDone: the callback is due for every end of the copy,
\* a clean end of stream (nil) included.
SelectCopyDone_NilReported ==
    /\ tl.pc = "select"
    /\ tl.copy = "ended"
    /\ tl' = [tl EXCEPT !.branch = "natural", !.ctxAtSelect = tl.ctxDone,
                        !.err = tl.copyErr, !.cb = tl.errCallback,
                        !.pc = IF tl.errCallback # "nil" THEN "callback" ELSE "defer"]
    /\ UNCHANGED <<stopPc, stopCalls>>
    /\ UNCHANGED notTail

\* Lines 72-77: the select takes err := <-copyDone; under t.mu the error is
\* recorded and the callback read; the callback is due only if err != nil and
\* cb != nil.
SelectCopyDone ==
    /\ tl.pc = "select"
    /\ tl.copy = "ended"
    /\ tl' = [tl EXCEPT !.branch = "natural", !.ctxAtSelect = tl.ctxDone,
                        !.err = tl.copyErr, !.cb = tl.errCallback,
                        !.pc = IF tl.copyErr # "nil" /\ tl.errCallback # "nil"
                               THEN "callback" ELSE "defer"]
    /\ UNCHANGED <<stopPc, stopCalls>>
    /\ UNCHANGED notTail

\* Line 78: cb(err).
TailCallback ==
    /\ tl.pc = "callback"
    /\ tl' = [tl EXCEPT !.pc = "defer", !.cbCalls = @ + 1]
    /\ UNCHANGED <<stopPc, stopCalls>>
    /\ UNCHANGED notTail

\* Lines 57-58, the deferred calls: sess.Close(), then close(t.done).
TailDefer ==
    /\ tl.pc = "defer"
    /\ tl' = [tl EXCEPT !.pc = "exited", !.sessOpen = FALSE, !.closes = @ + 1]
    /\ UNCHANGED <<stopPc, stopCalls>>
    /\ UNCHANGED notTail

\* Stop, line 88: t.cancel(); the caller then waits on t.done.
StopCancel ==
    /\ TailerExists
    /\ stopPc \in {"idle", "returned"}
    /\ stopCalls < MaxStops
    /\ stopCalls' = stopCalls + 1
    /\ stopPc' = "waiting"
    /\ tl' = [tl EXCEPT !.ctxDone = TRUE]
    /\ UNCHANGED notTail

\* mutation of StopReturn: done carries one value that the first receive
\* takes, instead of being closed
StopReturn_ReceivesOnce ==
    /\ stopPc = "waiting"
    /\ tl.pc = "exited"
    /\ stopPc' = "returned"
    /\ tl' = [tl EXCEPT !.pc = "drained"]
    /\ UNCHANGED stopCalls
    /\ UNCHANGED notTail

\* Stop, line 89: <-t.done returns once the loop has closed it.
StopReturn ==
    /\ stopPc = "waiting"
    /\ tl.pc = "exited"
    /\ stopPc' = "returned"
    /\ UNCHANGED <<tl, stopCalls>>
    /\ UNCHANGED notTail

\* The steps of the background goroutine.
TailLoop ==
    \/ SelectCtxDone
    \/ TailSignal
    \/ TailClose
    \/ SelectCopyDone
    \/ TailCallback
    \/ TailDefer

TailNext ==
    \/ StartTailOK
    \/ StartTailFail
    \/ SetErrCallback
    \/ TailCtxCancel
    \/ CopyEnds
    \/ TailLoop
    \/ StopCancel
    \/ StopReturn

SpecTail == Init /\ [][TailNext]_vars

\* The Go scheduler runs every runnable goroutine: the loop takes its next
\* step when it has one, and a Stop whose wait can return does return.
SpecTailFair == SpecTail /\ WF_vars(TailLoop)
                         /\ WF_vars(StopReturn)

SpecPool == Init /\ [][PoolNext]_vars

(***************************************************************************)
(* App: the handlers tview calls on the event-loop goroutine                *)
(* A handler's lock sections are taken as one step: the goroutines write   *)
(* only tailer/tailCtx/tailCancel under a.mu, and a handler reads or       *)
(* writes those in its first lock section only.  A handler takes a.mu      *)
(* when it is free and has released it when its step ends.                 *)
(***************************************************************************)
\* the slot the next `go` statement uses (NoTask when the bound is reached)
FreeTask ==
    IF \E i \in TaskIds : tasks[i].kind = "none"
    THEN CHOOSE i \in TaskIds : tasks[i].kind = "none"
                                /\ \A j \in TaskIds : tasks[j].kind = "none" => i <= j
    ELSE NoTask

\* stopTailLocked (lines 939-950): cancel the installed tail, if any.
stopTailLocked(tls) ==
    IF tailer # NoTask THEN [tls EXCEPT ![tailCancel].cancelled = TRUE] ELSE tls

\* cancelConnectLocked (lines 665-670): cancel the remembered connect context.
cancelConnectLocked(tks) ==
    IF connectCancel # NoTask
    THEN [tks EXCEPT ![connectCancel].ctx = IF @ = "live" THEN "cancelled" ELSE @]
    ELSE tks

\* the goroutine startConnection / RefreshFiles starts (lines 662, 532-535)
filesTask(o, srv) ==
    [kind |-> "files", pc |-> "getClient", origin |-> o, srv |-> srv, ctx |-> "live"]

\* the goroutine onFileSelected starts (line 768)
tailTask(srv) ==
    [kind |-> "tail", pc |-> "getClient", origin |-> "file", srv |-> srv, ctx |-> "none"]

\* the goroutine the download dialog starts (line 870)
downloadTask(srv) ==
    [kind |-> "download", pc |-> "begin", origin |-> "download", srv |-> srv,
     ctx |-> "none"]

\* onServerSelected (lines 538-594), servers without sudo: stop the tail,
\* cancel the connect, select srv; a multi-folder server shows its folders, a
\* single-folder one selects the folder and calls startConnection (647-663).
onServerSelected(srv) ==
    /\ loopRunning
    /\ mu = muFree
    /\ currentServer' = srv
    /\ currentFile' = "none"
    /\ tails' = stopTailLocked(tails)
    /\ tailer' = NoTask /\ tailCtx' = NoTask /\ tailCancel' = NoTask
    /\ IF Cardinality(EffectiveFolders(srv)) > 1
       THEN /\ currentFolder' = "none"
            /\ tasks' = cancelConnectLocked(tasks)
            /\ connectCancel' = NoTask
            /\ pane' = [mode |-> "folders", srv |-> srv, hasUpDir |-> FALSE]
       ELSE /\ FreeTask # NoTask
            /\ \E folder \in EffectiveFolders(srv) :
                 /\ currentFolder' = folder
                 /\ tasks' = [cancelConnectLocked(tasks) EXCEPT
                                ![FreeTask] = filesTask("connect", srv)]
            /\ connectCancel' = FreeTask
            /\ pane' = [mode |-> "empty", srv |-> "none", hasUpDir |-> FALSE]
    /\ UNCHANGED <<stopped, pendingGo, loopRunning, shutdownPc, shutdownTailer>>
    /\ UNCHANGED mu
    /\ UNCHANGED notApp

\* onFolderSelected (lines 596-626) on a row of the folder list, then
\* startConnection (647-663): stop the tail, select the folder, start a connect
\* and remember its cancel function.
onFolderSelected(folder) ==
    /\ loopRunning
    /\ mu = muFree
    /\ pane.mode = "folders"
    /\ folder \in EffectiveFolders(pane.srv)
    /\ currentServer # "none"
    /\ FreeTask # NoTask
    /\ tails' = stopTailLocked(tails)
    /\ tailer' = NoTask /\ tailCtx' = NoTask /\ tailCancel' = NoTask
    /\ currentFolder' = folder
    /\ currentFile' = "none"
    /\ tasks' = [tasks EXCEPT ![FreeTask] = filesTask("connect", currentServer)]
    /\ connectCancel' = FreeTask
    /\ UNCHANGED <<currentServer, stopped, pendingGo, pane, loopRunning,
                   shutdownPc, shutdownTailer>>
    /\ UNCHANGED mu
    /\ UNCHANGED notApp

\* onUpDir (lines 628-645) on the "/ .." row: stop the tail, clear folder and
\* file, show the folders of the current server.
onUpDir ==
    /\ loopRunning
    /\ mu = muFree
    /\ pane.mode = "files" /\ pane.hasUpDir
    /\ tails' = stopTailLocked(tails)
    /\ tailer' = NoTask /\ tailCtx' = NoTask /\ tailCancel' = NoTask
    /\ currentFolder' = "none"
    /\ currentFile' = "none"
    /\ pane' = IF currentServer # "none"
               THEN [mode |-> "folders", srv |-> currentServer, hasUpDir |-> FALSE]
               ELSE pane
    /\ UNCHANGED <<currentServer, connectCancel, stopped, tasks, pendingGo, loopRunning, shutdownPc, shutdownTailer>>
    /\ UNCHANGED mu
    /\ UNCHANGED notApp

\* onFileSelected (lines 743-769) on a file row: stop the tail, select the
\* file, start loadAndTailFile.
onFileSelected(file) ==
    /\ loopRunning
    /\ mu = muFree
    /\ pane.mode = "files"
    /\ currentServer # "none" /\ currentFolder # "none"
    /\ FreeTask # NoTask
    /\ tails' = stopTailLocked(tails)
    /\ tailer' = NoTask /\ tailCtx' = NoTask /\ tailCancel' = NoTask
    /\ currentFile' = file
    /\ tasks' = [tasks EXCEPT ![FreeTask] = tailTask(currentServer)]
    /\ UNCHANGED <<currentServer, currentFolder, connectCancel, stopped, pendingGo,
                   pane, loopRunning, shutdownPc, shutdownTailer>>
    /\ UNCHANGED mu
    /\ UNCHANGED notApp

\* mutation of StopTail: the handler calls Tailer.Stop, i.e. returns only
\* when the Tailer's loop has exited
StopTail_WaitsForLoop ==
    /\ loopRunning
    /\ mu = muFree
    /\ tailer # NoTask
    /\ tails[tailer].state = "exited"
    /\ tails' = stopTailLocked(tails)
    /\ tailer' = NoTask /\ tailCtx' = NoTask /\ tailCancel' = NoTask
    /\ UNCHANGED <<currentServer, currentFolder, currentFile, connectCancel, stopped,
                   tasks, pendingGo, pane, loopRunning, shutdownPc,
                   shutdownTailer>>
    /\ UNCHANGED mu
    /\ UNCHANGED notApp

\* mutation of StopTail: stopping the tail also forgets the selected file
StopTail_ClearsFile ==
    /\ loopRunning
    /\ mu = muFree
    /\ tails' = stopTailLocked(tails)
    /\ IF tailer # NoTask
       THEN tailer' = NoTask /\ tailCtx' = NoTask /\ tailCancel' = NoTask
       ELSE UNCHANGED <<tailer, tailCtx, tailCancel>>
    /\ currentFile' = "none"
    /\ UNCHANGED <<currentServer, currentFolder, connectCancel, stopped,
                   tasks, pendingGo, pane, loopRunning, shutdownPc,
                   shutdownTailer>>
    /\ UNCHANGED mu
    /\ UNCHANGED notApp

\* StopTail (lines 505-517), Esc: stopTailLocked under a.mu; with no tail
\* installed nothing of the App's state changes.
StopTail ==
    /\ loopRunning
    /\ mu = muFree
    /\ tails' = stopTailLocked(tails)
    /\ IF tailer # NoTask
       THEN tailer' = NoTask /\ tailCtx' = NoTask /\ tailCancel' = NoTask
       ELSE UNCHANGED <<tailer, tailCtx, tailCancel>>
    /\ UNCHANGED <<currentServer, currentFolder, currentFile, connectCancel, stopped,
                   tasks, pendingGo, pane, loopRunning, shutdownPc,
                   shutdownTailer>>
    /\ UNCHANGED mu
    /\ UNCHANGED notApp

\* ShowFilterPrompt (lines 428-465), F7 and then the prompt's answer: with
\* a server, a folder and a file still current, stop the installed tail and
\* start loadAndTailFile again for the current file.
ShowFilterPrompt ==
    /\ loopRunning
    /\ mu = muFree
    /\ currentServer # "none" /\ currentFolder # "none" /\ currentFile # "none"
    /\ FreeTask # NoTask
    /\ tails' = stopTailLocked(tails)
    /\ tailer' = NoTask /\ tailCtx' = NoTask /\ tailCancel' = NoTask
    /\ tasks' = [tasks EXCEPT ![FreeTask] = tailTask(currentServer)]
    /\ UNCHANGED <<currentServer, currentFolder, currentFile, connectCancel, stopped,
                   pendingGo, pane, loopRunning, shutdownPc, shutdownTailer>>
    /\ UNCHANGED mu
    /\ UNCHANGED notApp

\* ShowDownloadDialog (lines 832-896), F5 and then the dialog's OK button:
\* copy the current server, folder and file under a.mu, release it, and
\* start downloadFile on a goroutine.
ShowDownloadDialog ==
    /\ loopRunning
    /\ mu = muFree
    /\ currentServer # "none" /\ currentFolder # "none" /\ currentFile # "none"
    /\ FreeTask # NoTask
    /\ tasks' = [tasks EXCEPT ![FreeTask] = downloadTask(currentServer)]
    /\ UNCHANGED <<currentServer, currentFolder, currentFile, tailer, tailCtx,
                   tailCancel, connectCancel, stopped, tails, pendingGo, pane,
                   loopRunning, shutdownPc, shutdownTailer>>
    /\ UNCHANGED mu
    /\ UNCHANGED notApp

\* RefreshFiles (lines 520-536): reload the listing of the current folder
\* under a context of its own, which connectCancel does not remember.
RefreshFiles ==
    /\ loopRunning
    /\ mu = muFree
    /\ currentServer # "none" /\ currentFolder # "none"
    /\ FreeTask # NoTask
    /\ tasks' = [tasks EXCEPT ![FreeTask] = filesTask("refresh", currentServer)]
    /\ UNCHANGED <<currentServer, currentFolder, currentFile, tailer, tailCtx,
                   tailCancel, connectCancel, stopped, tails, pendingGo, pane,
                   loopRunning, shutdownPc, shutdownTailer>>
    /\ UNCHANGED mu
    /\ UNCHANGED notApp

\* Ctrl-C (keybindings.go:22-27) stops the event loop; Run (lines 183-199)
\* returns and its deferred shutdown starts.
Quit ==
    /\ loopRunning
    /\ mu = muFree
    /\ loopRunning' = FALSE
    /\ shutdownPc' = "store"
    /\ UNCHANGED <<currentServer, currentFolder, currentFile, tailer, tailCtx,
                   tailCancel, connectCancel, stopped, tasks, tails, pendingGo, pane, shutdownTailer>>
    /\ UNCHANGED mu
    /\ UNCHANGED notApp

(***************************************************************************)
(* App: the background goroutines                                          *)
(***************************************************************************)
\* queueUpdate (lines 164-175) called by goroutine i with update w: dropped
\* when stopped is set, otherwise a goroutine is started that will call
\* QueueUpdateDraw.
\* The update remembers the goroutine that queued it: its origin and server.
queueUpdate(i, w) ==
    pendingGo' = IF stopped # 0 THEN pendingGo
                 ELSE pendingGo \cup {[task |-> i, what |-> w,
                                       origin |-> tasks[i].origin, srv |-> tasks[i].srv]}

\* the update functions the goroutines queue (lines 681, 717, 730, 776, 790,
\* 796, 805, 812, 825, 902, 910, 922, 934)
UpdateKinds == {"connErr", "listErr", "files", "readErr", "content", "tailErr",
                "tailing", "lost", "downloading", "dlErr", "downloaded"}

\* what the goroutines' steps below leave alone
notTaskStep == <<mu, currentServer, currentFolder, currentFile, tailer, tailCtx,
                 tailCancel, connectCancel, stopped, pane, loopRunning,
                 shutdownPc, shutdownTailer>>

\* The deadline of a connect or refresh context passes (lines 531, 650)
\* while GetClient, the only reader of the context, is running.
CtxDeadline(i) ==
    /\ tasks[i].kind = "files" /\ tasks[i].pc = "getClient"
    /\ tasks[i].ctx = "live"
    /\ tasks' = [tasks EXCEPT ![i].ctx = "deadline"]
    /\ UNCHANGED <<tails, pendingGo>>
    /\ UNCHANGED notTaskStep
    /\ UNCHANGED notApp

\* loadFilesForFolder, GetClient returns a client (lines 674, 690).  The pool
\* can return a cached client although ctx is done (client.go:47-59).
LoadFilesGetClientOK(i) ==
    /\ tasks[i].kind = "files" /\ tasks[i].pc = "getClient"
    /\ tasks' = [tasks EXCEPT ![i].pc = "list"]
    /\ UNCHANGED <<tails, pendingGo>>
    /\ UNCHANGED notTaskStep
    /\ UNCHANGED notApp

\* loadFilesForFolder, GetClient fails (lines 675-689): silent when the
\* context is done, otherwise the error is queued.
LoadFilesGetClientErr(i) ==
    /\ tasks[i].kind = "files" /\ tasks[i].pc = "getClient"
    /\ tasks' = [tasks EXCEPT ![i] = taskDone]
    /\ IF tasks[i].ctx # "live" THEN UNCHANGED pendingGo
       ELSE queueUpdate(i, "connErr")
    /\ UNCHANGED tails
    /\ UNCHANGED notTaskStep
    /\ UNCHANGED notApp

\* loadFilesForFolder, ListFiles returns (lines 697-741); ListFiles takes no
\* context.  ok: the listing is queued; otherwise the list error is queued.
LoadFilesList(i, ok) ==
    /\ tasks[i].kind = "files" /\ tasks[i].pc = "list"
    /\ tasks' = [tasks EXCEPT ![i] = taskDone]
    /\ queueUpdate(i, IF ok THEN "files" ELSE "listErr")
    /\ UNCHANGED tails
    /\ UNCHANGED notTaskStep
    /\ UNCHANGED notApp

\* loadAndTailFile, GetClient (lines 772-780)
LoadTailGetClient(i, ok) ==
    /\ tasks[i].kind = "tail" /\ tasks[i].pc = "getClient"
    /\ IF ok THEN /\ tasks' = [tasks EXCEPT ![i].pc = "read"]
                  /\ UNCHANGED pendingGo
       ELSE /\ tasks' = [tasks EXCEPT ![i] = taskDone]
            /\ queueUpdate(i, "connErr")
    /\ UNCHANGED tails
    /\ UNCHANGED notTaskStep
    /\ UNCHANGED notApp

\* downloadFile announces itself (lines 899-904)
DownloadBegin(i) ==
    /\ tasks[i].kind = "download" /\ tasks[i].pc = "begin"
    /\ tasks' = [tasks EXCEPT ![i].pc = "getClient"]
    /\ queueUpdate(i, "downloading")
    /\ UNCHANGED tails
    /\ UNCHANGED notTaskStep
    /\ UNCHANGED notApp

\* downloadFile, GetClient under a 15 s context of its own (lines 906-914)
DownloadGetClient(i, ok) ==
    /\ tasks[i].kind = "download" /\ tasks[i].pc = "getClient"
    /\ IF ok THEN /\ tasks' = [tasks EXCEPT ![i].pc = "download"]
                  /\ UNCHANGED pendingGo
       ELSE /\ tasks' = [tasks EXCEPT ![i] = taskDone]
            /\ queueUpdate(i, "dlErr")
    /\ UNCHANGED tails
    /\ UNCHANGED notTaskStep
    /\ UNCHANGED notApp

\* downloadFile, ssh.DownloadFile and the queued outcome (lines 916-936)
DownloadFile(i, ok) ==
    /\ tasks[i].kind = "download" /\ tasks[i].pc = "download"
    /\ tasks' = [tasks EXCEPT ![i] = taskDone]
    /\ queueUpdate(i, IF ok THEN "downloaded" ELSE "dlErr")
    /\ UNCHANGED tails
    /\ UNCHANGED notTaskStep
    /\ UNCHANGED notApp

\* loadAndTailFile, ReadFileContent and the queued SetText (lines 788-798)
LoadTailRead(i, ok) ==
    /\ tasks[i].kind = "tail" /\ tasks[i].pc = "read"
    /\ tasks' = [tasks EXCEPT ![i] = IF ok THEN [@ EXCEPT !.pc = "start"] ELSE taskDone]
    /\ queueUpdate(i, IF ok THEN "content" ELSE "readErr")
    /\ UNCHANGED tails
    /\ UNCHANGED notTaskStep
    /\ UNCHANGED notApp

\* loadAndTailFile, StartTail and SetErrCallback (lines 801-817): on success
\* the Tailer's loop runs and copies into the viewer's writer.  A stream that
\* ends before the callback is registered reports nothing, as one that ends
\* with a nil error does.
LoadTailStart(i, ok) ==
    /\ tasks[i].kind = "tail" /\ tasks[i].pc = "start"
    /\ IF ok THEN /\ tasks' = [tasks EXCEPT ![i].pc = "install"]
                  /\ tails' = [tails EXCEPT ![i].state = "streaming"]
                  /\ UNCHANGED pendingGo
       ELSE /\ tasks' = [tasks EXCEPT ![i] = taskDone]
            /\ queueUpdate(i, "tailErr")
            /\ UNCHANGED tails
    /\ UNCHANGED notTaskStep
    /\ UNCHANGED notApp

\* loadAndTailFile takes a.mu (line 819).
LoadTailLock(i) ==
    /\ tasks[i].kind = "tail" /\ tasks[i].pc = "install"
    /\ mu = muFree
    /\ mu' = muTask(i)
    /\ tasks' = [tasks EXCEPT ![i].pc = "locked"]
    /\ UNCHANGED <<currentServer, currentFolder, currentFile, tailer, tailCtx,
                   tailCancel, connectCancel, stopped, tails, pendingGo, pane,
                   loopRunning, shutdownPc, shutdownTailer>>
    /\ UNCHANGED notApp

\* mutation of LoadTailInstall: the context and its cancel function are
\* stored, the Tailer is not
LoadTailInstall_CancelOnly(i) ==
    /\ tasks[i].kind = "tail" /\ tasks[i].pc = "locked"
    /\ tasks' = [tasks EXCEPT ![i].pc = "announce"]
    /\ tailCtx' = i /\ tailCancel' = i
    /\ mu' = muFree
    /\ UNCHANGED <<currentServer, currentFolder, currentFile, connectCancel, stopped,
                   tails, pendingGo, pane, loopRunning, shutdownPc,
                   shutdownTailer, tailer>>
    /\ UNCHANGED notApp

\* loadAndTailFile installs its Tailer as the App's tail and releases a.mu
\* (lines 820-823), whatever is installed and whatever is selected by now.
LoadTailInstall(i) ==
    /\ tasks[i].kind = "tail" /\ tasks[i].pc = "locked"
    /\ tasks' = [tasks EXCEPT ![i].pc = "announce"]
    /\ tailer' = i /\ tailCtx' = i /\ tailCancel' = i
    /\ mu' = muFree
    /\ UNCHANGED <<currentServer, currentFolder, currentFile, connectCancel, stopped,
                   tails, pendingGo, pane, loopRunning, shutdownPc,
                   shutdownTailer>>
    /\ UNCHANGED notApp

\* loadAndTailFile queues the "Tailing" status (lines 825-828) and returns.
LoadTailAnnounce(i) ==
    /\ tasks[i].kind = "tail" /\ tasks[i].pc = "announce"
    /\ tasks' = [tasks EXCEPT ![i] = taskDone]
    /\ queueUpdate(i, "tailing")
    /\ UNCHANGED tails
    /\ UNCHANGED notTaskStep
    /\ UNCHANGED notApp

\* The stream of Tailer i ends and its loop takes the copyDone case
\* (tailer.go:73-79): with an error, the registered callback
\* (part_004:811-817) queues the "connection lost" update.
TailStreamEnds(i, e) ==
    /\ tails[i].state = "streaming"
    /\ tails' = [tails EXCEPT ![i].state = "exited"]
    /\ IF e = "err" THEN queueUpdate(i, "lost")
       ELSE UNCHANGED pendingGo
    /\ UNCHANGED tasks
    /\ UNCHANGED notTaskStep
    /\ UNCHANGED notApp

\* The loop of Tailer i takes the ctx.Done case (tailer.go:68-72) and exits.
TailCancelObserved(i) ==
    /\ tails[i].state = "streaming" /\ tails[i].cancelled
    /\ tails' = [tails EXCEPT ![i].state = "exited"]
    /\ UNCHANGED <<tasks, pendingGo>>
    /\ UNCHANGED notTaskStep
    /\ UNCHANGED notApp

\* A goroutine of queueUpdate calls QueueUpdateDraw (line 172): the update is
\* handed to tview, and the loop, when it still runs, executes it: SetFiles
\* (lines 730-732) or SetMessage (lines 683, 719) on the file pane.
HandOff(i, w) ==
    /\ \E u \in pendingGo :
         /\ u.task = i /\ u.what = w
         /\ pendingGo' = pendingGo \ {u}
         /\ pane' = IF ~loopRunning THEN pane
                    ELSE IF w = "files"
                         THEN [mode |-> "files", srv |-> u.srv,
                               hasUpDir |-> Cardinality(EffectiveFolders(u.srv)) > 1]
                    ELSE IF w \in {"connErr", "listErr"} /\ u.origin # "file"
                         THEN [mode |-> "message", srv |-> "none", hasUpDir |-> FALSE]
                    ELSE pane
    /\ UNCHANGED <<currentServer, currentFolder, currentFile, tailer, tailCtx,
                   tailCancel, connectCancel, stopped, tasks, tails, loopRunning,
                   shutdownPc, shutdownTailer>>
    /\ UNCHANGED mu
    /\ UNCHANGED notApp

(***************************************************************************)
(* App.shutdown (lines 952-981), on the goroutine that called Run           *)
(***************************************************************************)
notShutdownStep == <<currentServer, currentFolder, currentFile, pendingGo, pane, loopRunning>>

\* a.stopped.Store(1) (line 954)
ShutdownStore ==
    /\ shutdownPc = "store"
    /\ stopped' = 1
    /\ shutdownPc' = "lock"
    /\ UNCHANGED <<mu, tailer, tailCtx, tailCancel, connectCancel, tasks, tails,
                   shutdownTailer>>
    /\ UNCHANGED notShutdownStep
    /\ UNCHANGED notApp

\* a.mu.Lock() (line 956)
ShutdownAcquire ==
    /\ shutdownPc = "lock"
    /\ mu = muFree
    /\ mu' = muShutdown
    /\ shutdownPc' = "locked"
    /\ UNCHANGED <<tailer, tailCtx, tailCancel, connectCancel, stopped, tasks, tails,
                   shutdownTailer>>
    /\ UNCHANGED notShutdownStep
    /\ UNCHANGED notApp

\* mutation of ShutdownLock: with a tail to wait for, a.mu is kept across
\* the wait for Tailer.Stop
ShutdownLock_HoldsAcrossWait ==
    /\ shutdownPc = "locked"
    /\ mu' = IF tailer # NoTask THEN muShutdown ELSE muFree
    /\ tasks' = cancelConnectLocked(tasks)
    /\ connectCancel' = NoTask
    /\ tails' = stopTailLocked(tails)
    /\ shutdownTailer' = tailer
    /\ tailer' = NoTask /\ tailCtx' = NoTask /\ tailCancel' = NoTask
    /\ shutdownPc' = IF tailer # NoTask THEN "wait" ELSE "closeAll"
    /\ UNCHANGED stopped
    /\ UNCHANGED notShutdownStep
    /\ UNCHANGED notApp

\* mutation of ShutdownLock: the tail is neither cancelled nor waited for
ShutdownLock_KeepsTail ==
    /\ shutdownPc = "locked"
    /\ mu' = muFree
    /\ tasks' = cancelConnectLocked(tasks)
    /\ connectCancel' = NoTask
    /\ shutdownTailer' = tailer
    /\ tailer' = NoTask /\ tailCtx' = NoTask /\ tailCancel' = NoTask
    /\ shutdownPc' = "closeAll"
    /\ UNCHANGED <<stopped, tails>>
    /\ UNCHANGED notShutdownStep
    /\ UNCHANGED notApp

\* the locked section (lines 957-964, 977): cancel the connect; cancel and
\* take the tail, if any; release a.mu on either branch.
ShutdownLock ==
    /\ shutdownPc = "locked"
    /\ mu' = muFree
    /\ tasks' = cancelConnectLocked(tasks)
    /\ connectCancel' = NoTask
    /\ tails' = stopTailLocked(tails)
    /\ shutdownTailer' = tailer
    /\ tailer' = NoTask /\ tailCtx' = NoTask /\ tailCancel' = NoTask
    /\ shutdownPc' = IF tailer # NoTask THEN "wait" ELSE "closeAll"
    /\ UNCHANGED stopped
    /\ UNCHANGED notShutdownStep
    /\ UNCHANGED notApp

\* the select takes <-done (lines 968-973): Stop returned because the
\* Tailer's loop has closed its done channel.
ShutdownWaitDone ==
    /\ shutdownPc = "wait"
    /\ tails[shutdownTailer].state = "exited"
    /\ shutdownPc' = "closeAll"
    /\ UNCHANGED <<mu, tailer, tailCtx, tailCancel, connectCancel, stopped, tasks, tails,
                   shutdownTailer>>
    /\ UNCHANGED notShutdownStep
    /\ UNCHANGED notApp

\* mutation of ShutdownTimeout: the timer case is taken only once the Tailer
\* has exited, i.e. shutdown waits for the Tailer without a bound
ShutdownTimeout_Unbounded ==
    /\ shutdownPc = "wait"
    /\ tails[shutdownTailer].state = "exited"
    /\ shutdownPc' = "closeAll"
    /\ UNCHANGED <<mu, tailer, tailCtx, tailCancel, connectCancel, stopped, tasks, tails,
                   shutdownTailer>>
    /\ UNCHANGED notShutdownStep
    /\ UNCHANGED notApp

\* the select takes <-time.After(3 * time.Second) (line 974)
ShutdownTimeout ==
    /\ shutdownPc = "wait"
    /\ shutdownPc' = "closeAll"
    /\ UNCHANGED <<mu, tailer, tailCtx, tailCancel, connectCancel, stopped, tasks, tails,
                   shutdownTailer>>
    /\ UNCHANGED notShutdownStep
    /\ UNCHANGED notApp

\* a.pool.CloseAll() (line 979), then shutdown returns.
ShutdownCloseAll ==
    /\ shutdownPc = "closeAll"
    /\ CloseAllLocked
    /\ shutdownPc' = "done"
    /\ UNCHANGED <<mu, tailer, tailCtx, tailCancel, connectCancel, stopped, tasks, tails,
                   shutdownTailer>>
    /\ UNCHANGED notShutdownStep
    /\ UNCHANGED <<tailVars, cmdVars, viewVars, fnVars, runVars, dwVars>>

shutdown ==
    \/ ShutdownStore
    \/ ShutdownAcquire
    \/ ShutdownLock
    \/ ShutdownWaitDone
    \/ ShutdownTimeout
    \/ ShutdownCloseAll

AppNext ==
    \/ \E srv \in Servers : onServerSelected(srv)
    \/ \E folder \in {"fa", "fb1", "fb2"} : onFolderSelected(folder)
    \/ onUpDir
    \/ \E file \in Files : onFileSelected(file)
    \/ StopTail
    \/ ShowFilterPrompt
    \/ ShowDownloadDialog
    \/ RefreshFiles
    \/ Quit
    \/ \E i \in TaskIds : CtxDeadline(i)
    \/ \E i \in TaskIds : LoadFilesGetClientOK(i)
    \/ \E i \in TaskIds : LoadFilesGetClientErr(i)
    \/ \E i \in TaskIds, ok \in BOOLEAN : LoadFilesList(i, ok)
    \/ \E i \in TaskIds, ok \in BOOLEAN : LoadTailGetClient(i, ok)
    \/ \E i \in TaskIds, ok \in BOOLEAN : LoadTailRead(i, ok)
    \/ \E i \in TaskIds, ok \in BOOLEAN : LoadTailStart(i, ok)
    \/ \E i \in TaskIds : DownloadBegin(i)
    \/ \E i \in TaskIds, ok \in BOOLEAN : DownloadGetClient(i, ok)
    \/ \E i \in TaskIds, ok \in BOOLEAN : DownloadFile(i, ok)
    \/ \E i \in TaskIds : LoadTailLock(i)
    \/ \E i \in TaskIds : LoadTailInstall(i)
    \/ \E i \in TaskIds : LoadTailAnnounce(i)
    \/ \E i \in TaskIds, e \in {"nil", "err"} : TailStreamEnds(i, e)
    \/ \E i \in TaskIds : TailCancelObserved(i)
    \/ \E i \in TaskIds, w \in UpdateKinds : HandOff(i, w)
    \/ shutdown

SpecApp == Init /\ [][AppNext]_vars

\* shutdown runs on a goroutine of its own that is always scheduled; its timer
\* fires; a goroutine that holds a.mu runs its three assignments and releases
\* it.  Nothing else is assumed about the Tailer's loop or the other goroutines.
SpecAppFair ==
    /\ SpecApp
    /\ WF_vars(shutdown)
    /\ \A i \in TaskIds : WF_vars(LoadTailInstall(i))

(***************************************************************************)
(* File operations (part_009) on a borrowed *ssh.Client                    *)
(***************************************************************************)
\* mutation of runCommandErr: only the first marker is looked for
runCommandErr_OneMarker(pw, out) ==
    IF pw # NoPassword
    THEN CASE out.o = "pipeErr" -> Errorf({"stdin pipe"})
           [] out.o = "startErr" -> Errorf({"starting"})
           [] out.o = "writeErr" -> Errorf({"writing sudo password"})
           [] OTHER ->
                IF out.exitOK THEN errNil
                ELSE IF Contains(out.stderr, SorryTryAgain)
                     THEN Errorf({SudoAuthFailed})
                     ELSE Errorf({"running"} \cup out.stderr)
    ELSE IF out.o = "ran" /\ out.exitOK THEN errNil
         ELSE Errorf({"running"} \cup out.stderr)

\* runCommand (lines 178-216) once its channel is open: the error it returns.
\* With a password: a failed pipe, start or write is reported as such; a
\* command that exits non-zero is an authentication failure if its stderr
\* contains a marker, and otherwise an error that quotes the stderr.  Without
\* a password: CombinedOutput's error quotes the combined output.
runCommandErr(pw, out) ==
    IF pw # NoPassword
    THEN CASE out.o = "pipeErr" -> Errorf({"stdin pipe"})
           [] out.o = "startErr" -> Errorf({"starting"})
           [] out.o = "writeErr" -> Errorf({"writing sudo password"})
           [] OTHER ->
                IF out.exitOK THEN errNil
                ELSE IF Contains(out.stderr, SorryTryAgain)
                        \/ Contains(out.stderr, IncorrectPassword)
                     THEN Errorf({SudoAuthFailed})
                     ELSE Errorf({"running"} \cup out.stderr)
    ELSE IF out.o = "ran" /\ out.exitOK THEN errNil
         ELSE Errorf({"running"} \cup out.stderr)

\* ListFiles, ReadFileContent, StatFile (lines 37-39, 59-61, 69-71): an error
\* of runCommand is wrapped with %w under the operation's own prefix.
wrapErr(kind, err) ==
    IF err.isNil THEN errNil
    ELSE Errorf({CASE kind = "list" -> "listing"
                   [] kind = "read" -> "reading"
                   [] OTHER -> "stat"} \cup err.text)

\* DownloadFile (lines 109-168) once its channel is open: the same
\* classification as runCommand with a password; without one the error of
\* Wait does not quote stderr.  (Its local failures, creating the file, the
\* stdout pipe and the copy, return before Wait in the same way as a failed
\* start.)
DownloadFileErr(pw, out) ==
    IF pw # NoPassword THEN runCommandErr(pw, out)
    ELSE IF out.o = "ran" /\ out.exitOK THEN errNil
         ELSE Errorf({"running"})

\* the error a file operation returns to its caller
opErr(kind, pw, out) ==
    IF kind = "download" THEN DownloadFileErr(pw, out)
    ELSE wrapErr(kind, runCommandErr(pw, out))

\* what a step of a file operation leaves alone
notOpStep == <<sudoPasswords, flow, prompt, sudoUpdates, attempts>>

\* client.NewSession() (lines 95-99, 172-176) at the start of a file
\* operation: a channel of its own on the borrowed client, or an error.
\* One file operation runs at a time.
FileOpStart(kind, pw, ok) ==
    /\ op.pc \in {"idle", "returned"}
    /\ op' = IF ok
             THEN [opIdle EXCEPT !.kind = kind, !.pc = "run", !.pw = pw, !.sess = "open"]
             ELSE [opIdle EXCEPT !.kind = kind, !.pc = "returned", !.pw = pw,
                                 !.err = IF kind = "download"
                                         THEN Errorf({"creating session"})
                                         ELSE wrapErr(kind, Errorf({"creating session"}))]
    /\ UNCHANGED clientCloses
    /\ UNCHANGED notOpStep
    /\ UNCHANGED notCmd

\* mutation of FileOpRun: the deferred call closes the borrowed client and
\* not the channel
FileOpRun_ClosesClient(out) ==
    /\ op.pc = "run"
    /\ op' = [op EXCEPT !.pc = "returned", !.out = out,
                        !.err = opErr(op.kind, op.pw, out)]
    /\ clientCloses' = clientCloses + 1
    /\ UNCHANGED notOpStep
    /\ UNCHANGED notCmd

\* The remote command runs and the operation returns (lines 101-168,
\* 178-216); the deferred sess.Close() (lines 99, 176) closes the channel.
FileOpRun(out) ==
    /\ op.pc = "run"
    /\ op' = [op EXCEPT !.pc = "returned", !.sess = "closed", !.out = out,
                        !.err = opErr(op.kind, op.pw, out)]
    /\ UNCHANGED clientCloses
    /\ UNCHANGED notOpStep
    /\ UNCHANGED notCmd

(***************************************************************************)
(* The privileged path of runCommand and DownloadFile, call by call        *)
(* (part_009:109-147, 178-210)                                             *)
(***************************************************************************)
\* the function returns err; the deferred sess.Close() (lines 99, 176) runs
\* if the channel was opened
pxReturn(err) ==
    [px EXCEPT !.pc = "returned", !.err = err,
               !.sess = IF px.sess = "open" THEN "closed" ELSE px.sess]

\* a call on the channel is added to the trace
pxStep(step, ok) == Append(px.trace, [step |-> step, ok |-> ok])

\* The function is called with a password (opts.SudoPassword != "", lines
\* 109, 178).  DownloadFile first creates the local directory (91-93); then
\* client.NewSession() (95-98, 172-175) opens the channel or fails.
privilegedCall(fn, pw, mkdirOK, ok) ==
    /\ px.pc \in {"idle", "returned"}
    /\ pw # NoPassword
    /\ fn = "runCommand" => mkdirOK
    /\ px' = IF ~mkdirOK
             THEN [pxIdle EXCEPT !.fn = fn, !.pw = pw, !.pc = "returned",
                                 !.err = Errorf({"creating local directory"})]
             ELSE IF ~ok
             THEN [pxIdle EXCEPT !.fn = fn, !.pw = pw, !.pc = "returned",
                                 !.err = Errorf({"creating session"})]
             ELSE [pxIdle EXCEPT !.fn = fn, !.pw = pw, !.pc = "pipes", !.sess = "open"]
    /\ UNCHANGED notRun

\* What precedes Start: runCommand sets the buffers and takes the stdin pipe
\* (182-189); DownloadFile creates the local file (103-106) and takes the
\* stdout and stdin pipes (116-124).  e is the failure, or "nil".
privilegedPipes(e) ==
    /\ px.pc = "pipes"
    /\ px.fn = "runCommand" => e \in {"nil", "stdin pipe"}
    /\ px' = IF e = "nil" THEN [px EXCEPT !.pc = "start"] ELSE pxReturn(Errorf({e}))
    /\ UNCHANGED notRun

\* sess.Start(sudoCmd) (lines 126-128, 191-193)
privilegedStart(ok) ==
    /\ px.pc = "start"
    /\ px' = IF ok THEN [px EXCEPT !.pc = "write", !.trace = pxStep("start", TRUE)]
             ELSE [pxReturn(Errorf({"starting"})) EXCEPT !.trace = pxStep("start", FALSE)]
    /\ UNCHANGED notRun

\* mutation of privilegedWrite: the input stream is closed before the
\* password is written
privilegedWrite_ClosesFirst(ok) ==
    /\ px.pc = "write"
    /\ px' = [px EXCEPT !.pc = IF px.fn = "DownloadFile" THEN "copy" ELSE "wait",
                        !.trace = px.trace \o <<[step |-> "closeStdin", ok |-> TRUE],
                                                [step |-> "write", ok |-> TRUE]>>]
    /\ UNCHANGED notRun

\* fmt.Fprintf(stdin, "%s\n", opts.SudoPassword) (lines 130-132, 195-198)
privilegedWrite(ok) ==
    /\ px.pc = "write"
    /\ px' = IF ok THEN [px EXCEPT !.pc = "closeStdin", !.trace = pxStep("write", TRUE)]
             ELSE [pxReturn(Errorf({"writing sudo password"}))
                       EXCEPT !.trace = pxStep("write", FALSE)]
    /\ UNCHANGED notRun

\* stdin.Close() (lines 133, 199): its error is not looked at
privilegedCloseStdin(ok) ==
    /\ px.pc = "closeStdin"
    /\ px' = [px EXCEPT !.pc = IF px.fn = "DownloadFile" THEN "copy" ELSE "wait",
                        !.trace = pxStep("closeStdin", ok)]
    /\ UNCHANGED notRun

\* DownloadFile: io.Copy(f, stdout) (lines 135-137)
privilegedCopy(ok) ==
    /\ px.pc = "copy"
    /\ px' = IF ok THEN [px EXCEPT !.pc = "wait", !.trace = pxStep("copy", TRUE)]
             ELSE [pxReturn(Errorf({"downloading file"}))
                       EXCEPT !.trace = pxStep("copy", FALSE)]
    /\ UNCHANGED notRun

\* sess.Wait() and the classification of its error (lines 139-146, 201-209)
privilegedWait(exitOK, stderr) ==
    /\ px.pc = "wait"
    /\ px' = [pxReturn(runCommandErr(px.pw, [o |-> "ran", exitOK |-> exitOK,
                                              stderr |-> stderr]))
                  EXCEPT !.trace = pxStep("wait", exitOK), !.stderr = stderr]
    /\ UNCHANGED notRun

RunNext ==
    \/ \E fn \in {"runCommand", "DownloadFile"}, pw \in Passwords, mk, ok \in BOOLEAN :
          privilegedCall(fn, pw, mk, ok)
    \/ \E e \in {"nil", "creating local file", "stdout pipe", "stdin pipe"} :
          privilegedPipes(e)
    \/ \E ok \in BOOLEAN : privilegedStart(ok)
    \/ \E ok \in BOOLEAN : privilegedWrite(ok)
    \/ \E ok \in BOOLEAN : privilegedCloseStdin(ok)
    \/ \E ok \in BOOLEAN : privilegedCopy(ok)
    \/ \E exitOK \in BOOLEAN, stderr \in Stderrs : privilegedWait(exitOK, stderr)

SpecRun == Init /\ [][RunNext]_vars

(***************************************************************************)
(* The privileged connect of the coordinator (part_004)                    *)
(***************************************************************************)
\* the pool's password cache
GetSudoPassword(srv) == sudoPasswords[srv]
SetSudoPassword(srv, pw) == [sudoPasswords EXCEPT ![srv] = pw]
ClearSudoPassword(srv) == [sudoPasswords EXCEPT ![srv] = NoPassword]

\* the update functions loadFilesForFolder queues (lines 681, 702, 717, 730)
SudoUpdateKinds == {"connErr", "reprompt", "listErr", "files",
                    "content", "readErr", "downloaded", "dlErr"}

\* queueUpdate (lines 165-176) for the updates of the running
\* loadFilesForFolder: dropped once stopped is set
sudoQueue(w) ==
    sudoUpdates' = IF stopped # 0 THEN sudoUpdates
                   ELSE sudoUpdates \cup {[what |-> w, srv |-> flow.srv,
                                           folder |-> flow.folder, origin |-> flow.origin]}

\* startConnection (lines 647-663): a new connect context, whose cancel
\* function replaces a.connectCancel, and loadFilesForFolder for srv and for
\* the folder that is current now; without a current folder nothing starts.
startSudoConnection(srv, folder) ==
    /\ connectCancel' = attempts + 1
    /\ attempts' = attempts + 1
    /\ flow' = IF folder = "none" THEN flow
               ELSE [pc |-> "connect", srv |-> srv, folder |-> folder,
                     origin |-> "connect", pw |-> NoPassword]

\* what the handlers of the privileged connect leave alone of the App
notSudoHandler == <<mu, stopped, tasks, pendingGo, pane, loopRunning, shutdownPc,
                    shutdownTailer>>

\* onServerSelected (lines 538-594) for a Target with sudo and one folder:
\* stop the tail, cancel the connect (its loadFilesForFolder has returned:
\* one runs at a time), select srv and its folder; without a cached password
\* the prompt opens, with one the connection starts.  Keys do not reach the
\* panes while the prompt is open (keybindings.go:30-32).
onSudoServerSelected(srv) ==
    /\ loopRunning
    /\ mu = muFree
    /\ prompt = noPrompt
    /\ flow.pc = "idle"
    /\ attempts < MaxAttempts
    /\ tails' = stopTailLocked(tails)
    /\ tailer' = NoTask /\ tailCtx' = NoTask /\ tailCancel' = NoTask
    /\ currentServer' = srv
    /\ currentFolder' = SudoFolder(srv)
    /\ currentFile' = "none"
    /\ IF GetSudoPassword(srv) = NoPassword
       THEN /\ prompt' = [srv |-> srv, folder |-> SudoFolder(srv), origin |-> "select"]
            /\ connectCancel' = NoTask
            /\ UNCHANGED <<flow, attempts>>
       ELSE /\ startSudoConnection(srv, SudoFolder(srv))
            /\ UNCHANGED prompt
    /\ UNCHANGED <<sudoPasswords, sudoUpdates, op, clientCloses>>
    /\ UNCHANGED notSudoHandler
    /\ UNCHANGED <<poolVars, tailVars, viewVars, fnVars, runVars, dwVars>>

\* RefreshFiles (lines 519-536) for a Target with sudo: loadFilesForFolder
\* for the current server and folder under a context of its own.
RefreshSudoFiles ==
    /\ loopRunning
    /\ mu = muFree
    /\ prompt = noPrompt
    /\ flow.pc = "idle"
    /\ attempts < MaxAttempts
    /\ currentServer \in SudoServers /\ currentFolder # "none"
    /\ flow' = [pc |-> "connect", srv |-> currentServer, folder |-> currentFolder,
                origin |-> "refresh", pw |-> NoPassword]
    /\ attempts' = attempts + 1
    /\ UNCHANGED <<sudoPasswords, prompt, sudoUpdates, op, clientCloses>>
    /\ UNCHANGED notCmd

\* The callback of promptSudoPassword (lines 353-371, 582-589, 705-712): an
\* empty answer (or Cancel) gives up; a password is cached for the Target the
\* prompt was opened for and startConnection is called for that Target.
promptAnswer(pw) ==
    /\ loopRunning
    /\ prompt # noPrompt
    /\ IF pw = NoPassword
       THEN UNCHANGED <<sudoPasswords, flow, attempts, connectCancel>>
       ELSE /\ flow.pc = "idle"
            /\ attempts < MaxAttempts
            /\ sudoPasswords' = SetSudoPassword(prompt.srv, pw)
            /\ startSudoConnection(prompt.srv, currentFolder)
    /\ prompt' = noPrompt
    /\ UNCHANGED <<sudoUpdates, op, clientCloses>>
    /\ UNCHANGED <<currentServer, currentFolder, currentFile, tailer, tailCtx,
                   tailCancel, tails>>
    /\ UNCHANGED notSudoHandler
    /\ UNCHANGED <<poolVars, tailVars, viewVars, fnVars, runVars, dwVars>>

\* loadFilesForFolder calls ListFiles with the password it has read (line
\* 697) and ListFiles calls runCommand (part_009:36).
ListFilesStart(ok) ==
    /\ flow.pc = "list"
    /\ op.kind # "list"
    /\ FileOpStart("list", flow.pw, ok)

\* loadFilesForFolder, GetClient and the password (lines 672-695): a failed
\* connect is queued as an error; otherwise opts.SudoPassword is read from the
\* pool.
loadFilesConnect(ok) ==
    /\ flow.pc = "connect"
    /\ IF ok THEN /\ flow' = [flow EXCEPT !.pc = "list", !.pw = GetSudoPassword(flow.srv)]
                  /\ UNCHANGED sudoUpdates
       ELSE /\ flow' = flowIdle
            /\ sudoQueue("connErr")
    /\ UNCHANGED <<sudoPasswords, prompt, attempts, op, clientCloses>>
    /\ UNCHANGED notCmd

\* mutation of loadFilesListDone: every error of ListFiles is shown as the
\* generic list error
loadFilesListDone_Generic ==
    /\ flow.pc = "list"
    /\ op.kind = "list" /\ op.pc = "returned"
    /\ sudoQueue(IF op.err.isNil THEN "files" ELSE "listErr")
    /\ flow' = flowIdle
    /\ op' = opIdle
    /\ UNCHANGED <<sudoPasswords, prompt, attempts, clientCloses>>
    /\ UNCHANGED notCmd

\* loadFilesForFolder after ListFiles has returned (lines 697-741): an error
\* whose message contains "sudo authentication failed" clears the Target's
\* cached password and queues the re-prompt; another error queues the list
\* error; a listing is queued.
loadFilesListDone ==
    /\ flow.pc = "list"
    /\ op.kind = "list" /\ op.pc = "returned"
    /\ IF ~op.err.isNil /\ Contains(op.err.text, SudoAuthFailed)
       THEN /\ sudoPasswords' = ClearSudoPassword(flow.srv)
            /\ sudoQueue("reprompt")
       ELSE /\ sudoQueue(IF op.err.isNil THEN "files" ELSE "listErr")
            /\ UNCHANGED sudoPasswords
    /\ flow' = flowIdle
    /\ op' = opIdle
    /\ UNCHANGED <<prompt, attempts, clientCloses>>
    /\ UNCHANGED notCmd

\* A queued update reaches the event loop, which runs it while it runs: the
\* re-prompt update opens the password prompt for the Target of the failed
\* listing (lines 702-713).
SudoHandOff(w, srv) ==
    /\ \E u \in sudoUpdates :
         /\ u.what = w /\ u.srv = srv
         /\ sudoUpdates' = sudoUpdates \ {u}
         /\ prompt' = IF loopRunning /\ w = "reprompt"
                      THEN [srv |-> u.srv, folder |-> u.folder, origin |-> u.origin]
                      ELSE prompt
    /\ UNCHANGED <<sudoPasswords, flow, attempts, op, clientCloses>>
    /\ UNCHANGED notCmd

\* onFileSelected (lines 743-769) on a Target with sudo: stop the tail,
\* select the file and start loadAndTailFile, whose GetClient succeeds and
\* whose opts.SudoPassword is read from the pool (lines 772-786).
onSudoFileSelected(file) ==
    /\ loopRunning
    /\ mu = muFree
    /\ prompt = noPrompt
    /\ flow.pc = "idle"
    /\ attempts < MaxAttempts
    /\ currentServer \in SudoServers /\ currentFolder # "none"
    /\ tails' = stopTailLocked(tails)
    /\ tailer' = NoTask /\ tailCtx' = NoTask /\ tailCancel' = NoTask
    /\ currentFile' = file
    /\ flow' = [pc |-> "fileop", srv |-> currentServer, folder |-> currentFolder,
                origin |-> "read", pw |-> GetSudoPassword(currentServer)]
    /\ attempts' = attempts + 1
    /\ UNCHANGED <<currentServer, currentFolder, connectCancel>>
    /\ UNCHANGED <<sudoPasswords, prompt, sudoUpdates, op, clientCloses>>
    /\ UNCHANGED notSudoHandler
    /\ UNCHANGED <<poolVars, tailVars, viewVars, fnVars, runVars, dwVars>>

\* ShowDownloadDialog confirmed (lines 832-896) on a Target with sudo:
\* downloadFile starts for the current file; its GetClient succeeds and its
\* opts.SudoPassword is read from the pool (lines 906-919).
sudoDownloadFile ==
    /\ loopRunning
    /\ mu = muFree
    /\ prompt = noPrompt
    /\ flow.pc = "idle"
    /\ attempts < MaxAttempts
    /\ currentServer \in SudoServers /\ currentFolder # "none" /\ currentFile # "none"
    /\ flow' = [pc |-> "fileop", srv |-> currentServer, folder |-> currentFolder,
                origin |-> "download", pw |-> GetSudoPassword(currentServer)]
    /\ attempts' = attempts + 1
    /\ UNCHANGED <<sudoPasswords, prompt, sudoUpdates, op, clientCloses>>
    /\ UNCHANGED notCmd

\* loadAndTailFile calls ReadFileContent (line 789) and downloadFile calls
\* DownloadFile (line 921) with the password read.
sudoFileOpStart(ok) ==
    /\ flow.pc = "fileop"
    /\ op.kind # flow.origin
    /\ FileOpStart(flow.origin, flow.pw, ok)

\* loadAndTailFile after ReadFileContent has returned (lines 790-799) and
\* downloadFile after DownloadFile has returned (lines 921-936): an error is
\* queued as the status-bar error "read: ..." or "download: ...", whatever its
\* message; the content or the "Downloaded" context is queued otherwise.  (The
\* steps of loadAndTailFile after the content is queued are LoadTailStart to
\* LoadTailAnnounce of the App component.)
sudoFileOpDone ==
    /\ flow.pc = "fileop"
    /\ op.kind = flow.origin /\ op.pc = "returned"
    /\ sudoQueue(IF flow.origin = "read"
                 THEN (IF op.err.isNil THEN "content" ELSE "readErr")
                 ELSE (IF op.err.isNil THEN "downloaded" ELSE "dlErr"))
    /\ flow' = flowIdle
    /\ op' = opIdle
    /\ UNCHANGED <<sudoPasswords, prompt, attempts, clientCloses>>
    /\ UNCHANGED notCmd

\* the privileged connect and its listing
loadFilesForFolder ==
    \/ \E srv \in SudoServers : onSudoServerSelected(srv)
    \/ RefreshSudoFiles
    \/ \E pw \in Passwords \cup {NoPassword} : promptAnswer(pw)
    \/ \E ok \in BOOLEAN : loadFilesConnect(ok)
    \/ \E ok \in BOOLEAN : ListFilesStart(ok)
    \/ \E out \in Outcomes : FileOpRun(out)
    \/ loadFilesListDone
    \/ \E w \in SudoUpdateKinds, srv \in SudoServers : SudoHandOff(w, srv)

\* the read of a file's initial content and the download on a Target with sudo
sudoFileOps ==
    \/ \E file \in Files : onSudoFileSelected(file)
    \/ sudoDownloadFile
    \/ \E ok \in BOOLEAN : sudoFileOpStart(ok)
    \/ sudoFileOpDone

\* the privileged operations while the application runs and shutdown starts
SudoNext ==
    \/ loadFilesForFolder
    \/ sudoFileOps
    \/ Quit
    \/ ShutdownStore

SpecSudo == Init /\ [][SudoNext]_vars

(***************************************************************************)
(* The privileged connect of a Target with several folders (part_004)      *)
(***************************************************************************)
\* onServerSelected (lines 538-571) for the Target with sudo and several
\* folders: stop the tail, cancel the connect, select the server, show its
\* folders and return.
onSudoMultiServerSelected ==
    /\ loopRunning
    /\ mu = muFree
    /\ prompt = noPrompt
    /\ flow.pc = "idle"
    /\ tails' = stopTailLocked(tails)
    /\ tailer' = NoTask /\ tailCtx' = NoTask /\ tailCancel' = NoTask
    /\ connectCancel' = NoTask
    /\ currentServer' = MultiSudoServer
    /\ currentFolder' = "none"
    /\ currentFile' = "none"
    /\ UNCHANGED <<sudoPasswords, flow, prompt, sudoUpdates, attempts, op, clientCloses>>
    /\ UNCHANGED notSudoHandler
    /\ UNCHANGED <<poolVars, tailVars, viewVars, fnVars, runVars, dwVars>>

\* mutation of onSudoFolderSelected: the connection starts whether or not a
\* password is cached
onSudoFolderSelected_NoGate(folder) ==
    /\ loopRunning
    /\ mu = muFree
    /\ prompt = noPrompt
    /\ flow.pc = "idle"
    /\ attempts < MaxAttempts
    /\ currentServer = MultiSudoServer /\ currentFolder = "none"
    /\ tails' = stopTailLocked(tails)
    /\ tailer' = NoTask /\ tailCtx' = NoTask /\ tailCancel' = NoTask
    /\ currentFolder' = folder
    /\ currentFile' = "none"
    /\ startSudoConnection(currentServer, folder)
    /\ UNCHANGED prompt
    /\ UNCHANGED currentServer
    /\ UNCHANGED <<sudoPasswords, sudoUpdates, op, clientCloses>>
    /\ UNCHANGED notSudoHandler
    /\ UNCHANGED <<poolVars, tailVars, viewVars, fnVars, runVars, dwVars>>

\* onFolderSelected (lines 596-626) on that Target, its folders being shown:
\* stop the tail, select the folder; without a cached password the prompt
\* opens, with one the connection starts.
onSudoFolderSelected(folder) ==
    /\ loopRunning
    /\ mu = muFree
    /\ prompt = noPrompt
    /\ flow.pc = "idle"
    /\ attempts < MaxAttempts
    /\ currentServer = MultiSudoServer /\ currentFolder = "none"
    /\ tails' = stopTailLocked(tails)
    /\ tailer' = NoTask /\ tailCtx' = NoTask /\ tailCancel' = NoTask
    /\ currentFolder' = folder
    /\ currentFile' = "none"
    /\ IF GetSudoPassword(currentServer) = NoPassword
       THEN /\ prompt' = [srv |-> currentServer, folder |-> folder, origin |-> "select"]
            /\ UNCHANGED <<flow, attempts, connectCancel>>
       ELSE /\ startSudoConnection(currentServer, folder)
            /\ UNCHANGED prompt
    /\ UNCHANGED currentServer
    /\ UNCHANGED <<sudoPasswords, sudoUpdates, op, clientCloses>>
    /\ UNCHANGED notSudoHandler
    /\ UNCHANGED <<poolVars, tailVars, viewVars, fnVars, runVars, dwVars>>

\* onUpDir (lines 628-645) on that Target: stop the tail, clear the folder
\* and the file, show the folders again.
onSudoUpDir ==
    /\ loopRunning
    /\ mu = muFree
    /\ prompt = noPrompt
    /\ flow.pc = "idle"
    /\ currentServer = MultiSudoServer /\ currentFolder # "none"
    /\ tails' = stopTailLocked(tails)
    /\ tailer' = NoTask /\ tailCtx' = NoTask /\ tailCancel' = NoTask
    /\ currentFolder' = "none"
    /\ currentFile' = "none"
    /\ UNCHANGED <<currentServer, connectCancel>>
    /\ UNCHANGED <<sudoPasswords, flow, prompt, sudoUpdates, attempts, op, clientCloses>>
    /\ UNCHANGED notSudoHandler
    /\ UNCHANGED <<poolVars, tailVars, viewVars, fnVars, runVars, dwVars>>

\* the privileged connect of all the Targets with sudo
GateNext ==
    \/ loadFilesForFolder
    \/ onSudoMultiServerSelected
    \/ \E folder \in MultiSudoFolders : onSudoFolderSelected(folder)
    \/ onSudoUpDir
    \/ \E w \in SudoUpdateKinds : SudoHandOff(w, MultiSudoServer)

SpecGate == Init /\ [][GateNext]_vars

\* the borrowers of a client: the file operations and the Tailer
BorrowNext ==
    \/ \E kind \in {"list", "read", "stat", "download"},
          pw \in Passwords \cup {NoPassword}, ok \in BOOLEAN : FileOpStart(kind, pw, ok)
    \/ \E out \in Outcomes : FileOpRun(out)
    \/ TailNext

SpecBorrow == Init /\ [][BorrowNext]_vars

(***************************************************************************)
(* Claims about the file operations and the privileged connect             *)
(***************************************************************************)
\* a privileged list operation has failed with an authentication marker in
\* its stderr and has returned to loadFilesForFolder
AuthMarkerFailure ==
    /\ op.kind = "list" /\ op.pc = "returned"
    /\ op.pw # NoPassword
    /\ op.out.o = "ran" /\ ~op.out.exitOK
    /\ (SorryTryAgain \in op.out.stderr \/ IncorrectPassword \in op.out.stderr)

\* C11: privilege retry on listing.  When a privileged list operation fails
\* with stderr containing an authentication marker, the error ListFiles
\* returns is the authentication failure and not the generic command error;
\* loadFilesForFolder then clears the cached password of that Target (and of
\* no other), queues the password re-prompt for it (queueUpdate drops it only
\* when shutdown has set stopped) and does not queue the list error.
C11_PrivilegeRetry ==
    /\ [](AuthMarkerFailure =>
            /\ ~op.err.isNil
            /\ Contains(op.err.text, SudoAuthFailed)
            /\ ~Contains(op.err.text, "running"))
    /\ [][(AuthMarkerFailure /\ flow.pc = "list" /\ flow'.pc = "idle") =>
            /\ sudoPasswords' = [sudoPasswords EXCEPT ![flow.srv] = NoPassword]
            /\ stopped = 0 => \E u \in sudoUpdates' :
                                   u.what = "reprompt" /\ u.srv = flow.srv
            /\ \A u \in sudoUpdates' \ sudoUpdates : u.what = "reprompt"]_vars

\* the re-prompt for one Target is queued, its cached password is cleared and
\* the password of the other Target is still cached
C11_Witness ==
    \E srv, other \in SudoServers :
        /\ \E u \in sudoUpdates : u.what = "reprompt" /\ u.srv = srv
        /\ sudoPasswords[srv] = NoPassword
        /\ sudoPasswords[other] # NoPassword

\* C16: Session ownership.  No file operation (list, read, stat, download)
\* and no Tailer action (start, cancel, natural end) closes the client it
\* borrowed: the only Close calls they make are on the channel they opened
\* with NewSession, which is closed when the operation has returned or the
\* Tailer's loop has exited.  The sessions of the pool are closed by the pool
\* only: a step that closes one is the eviction in GetClient, CloseAll, or
\* the dial giving up a connection it has not handed out.
C16_SessionOwnership ==
    /\ [](clientCloses = 0)
    /\ [](op.pc = "returned" => op.sess # "open")
    /\ [](tl.pc = "exited" => ~tl.sessOpen)
    /\ [][\A s \in Sessions : closeCalls'[s] # closeCalls[s] =>
            \/ \E t \in Callers : gc[t].pc = "close" /\ gc[t].c = s
            \/ ~closeAllDone /\ closeAllDone' /\ \E k \in Keys : clients[k] = s
            \/ \E t \in Callers : gc[t].pc = "dialCheck" /\ gc[t].client = s
                                   /\ s \notin everStored]_vars

\* a file operation has returned and the Tailer's loop has exited, each with
\* its own channel closed, and nobody has closed the client
C16_Witness ==
    /\ op.pc = "returned" /\ op.sess = "closed"
    /\ tl.pc = "exited" /\ ~tl.sessOpen /\ tl.closes > 0
    /\ clientCloses = 0

(***************************************************************************)
(* The viewer during one file selection: loadAndTailFile (part_004:771-829)*)
(* publishes through queueUpdate, the Tailer's copy goroutine writes       *)
(* through drawWriter.Write (viewer_pane.go:37-96).  No tail filter is     *)
(* active (Clear resets it) and the application is not shutting down.      *)
(***************************************************************************)
\* the line counts of the initial content that ReadFileContent returns
ContentLines == {0, 2}
\* the chunks io.Copy hands to Write: complete lines, then maybe a partial one
Chunks == {[lines |-> n, partial |-> b] : n \in {0, 1}, b \in BOOLEAN}
              \ {[lines |-> 0, partial |-> FALSE]}
\* n lines tagged with where they come from
Lines(n, tag) == [k \in 1..n |-> tag]

\* queueUpdate (part_004:164-175) and the writer's go QueueUpdateDraw
\* (viewer_pane.go:82): a goroutine carries the function to the event loop
viewQueue(u) == viewUpdates' = viewUpdates \cup {u}

\* onFileSelected (part_004:743-769): viewerPane.Clear() on the event loop,
\* then go loadAndTailFile.
viewFileSelected ==
    /\ loadPc = "idle"
    /\ textView' = <<>>
    /\ lineCount' = 0
    /\ loadPc' = "read"
    /\ UNCHANGED <<lineBuf, pending, pendingLines, viewUpdates, writes, viewTail, viewHandle>>
    /\ UNCHANGED notView

\* loadAndTailFile, ReadFileContent (part_004:789-799): an error is queued
\* and the goroutine returns; the content is queued for SetText.
viewReadDone(ok, n) ==
    /\ loadPc = "read"
    /\ IF ok THEN /\ viewQueue([what |-> "content", lines |-> n])
                  /\ loadPc' = "start"
       ELSE /\ viewQueue([what |-> "readErr", lines |-> 0])
            /\ loadPc' = "done"
    /\ UNCHANGED <<textView, lineBuf, pending, pendingLines, lineCount, writes, viewTail,
                   viewHandle>>
    /\ UNCHANGED notView

\* loadAndTailFile, StartTail with viewerPane.Writer() (part_004:801-809): on
\* success the Tailer's copy goroutine runs from now on.
viewStartTail(ok) ==
    /\ loadPc = "start"
    /\ IF ok THEN /\ viewTail' = "streaming"
                  /\ loadPc' = "install"
                  /\ UNCHANGED viewUpdates
       ELSE /\ viewQueue([what |-> "tailErr", lines |-> 0])
            /\ loadPc' = "done"
            /\ UNCHANGED viewTail
    /\ UNCHANGED <<textView, lineBuf, pending, pendingLines, lineCount, writes, viewHandle>>
    /\ UNCHANGED notView

\* loadAndTailFile stores the handle under a.mu (part_004:819-823), queues
\* the "Tailing" status (825-828) and returns.
viewInstall ==
    /\ loadPc = "install"
    /\ viewHandle' = TRUE
    /\ viewQueue([what |-> "tailing", lines |-> 0])
    /\ loadPc' = "done"
    /\ UNCHANGED <<textView, lineBuf, pending, pendingLines, lineCount, writes, viewTail>>
    /\ UNCHANGED notView

\* drawWriter.Write (viewer_pane.go:37-96), called by the Tailer's io.Copy on
\* the copy goroutine: the bytes join lineBuf; without a newline nothing more
\* happens; otherwise the complete lines are written into the text view at
\* once, the rest stays in lineBuf, and one ScrollToEnd update is queued
\* unless one is pending.
drawWriterWrite(p) ==
    /\ viewTail = "streaming"
    /\ writes < MaxWrites
    /\ writes' = writes + 1
    /\ IF p.lines = 0
       THEN /\ lineBuf' = TRUE
            /\ UNCHANGED <<textView, pending, pendingLines, viewUpdates>>
       ELSE /\ textView' = textView \o Lines(p.lines, "stream")
            /\ lineBuf' = p.partial
            /\ pendingLines' = pendingLines + p.lines
            /\ pending' = TRUE
            /\ IF pending THEN UNCHANGED viewUpdates
               ELSE viewQueue([what |-> "draw", lines |-> 0])
    /\ UNCHANGED <<lineCount, loadPc, viewTail, viewHandle>>
    /\ UNCHANGED notView

\* ViewerPane.SetText (viewer_pane.go:313-334): Clear the text view, set the
\* text, count its lines.
SetText(n) ==
    /\ textView' = Lines(n, "init")
    /\ lineCount' = n

\* The event loop runs a queued function: SetText for the content
\* (part_004:797-799); ScrollToEnd and addLines for the writer
\* (viewer_pane.go:82-90); the status bar and the spinner for the others.
viewHandOff(u) ==
    /\ u \in viewUpdates
    /\ viewUpdates' = viewUpdates \ {u}
    /\ CASE u.what = "content" ->
              /\ SetText(u.lines)
              /\ UNCHANGED <<pending, pendingLines>>
         [] u.what = "draw" ->
              /\ lineCount' = lineCount + pendingLines
              /\ pendingLines' = 0
              /\ pending' = FALSE
              /\ UNCHANGED textView
         [] OTHER -> UNCHANGED <<textView, lineCount, pending, pendingLines>>
    /\ UNCHANGED <<lineBuf, loadPc, writes, viewTail, viewHandle>>
    /\ UNCHANGED notView

\* the functions that can be queued
ViewUpdateSet ==
    {[what |-> "content", lines |-> n] : n \in ContentLines}
    \cup {[what |-> w, lines |-> 0] : w \in {"readErr", "tailErr", "tailing", "draw"}}

ViewNext ==
    \/ viewFileSelected
    \/ \E ok \in BOOLEAN, n \in ContentLines : viewReadDone(ok, n)
    \/ \E ok \in BOOLEAN : viewStartTail(ok)
    \/ viewInstall
    \/ \E p \in Chunks : drawWriterWrite(p)
    \/ \E u \in ViewUpdateSet : viewHandOff(u)

SpecViewer == Init /\ [][ViewNext]_vars

(***************************************************************************)
(* drawWriter.Write (viewer_pane.go:37-96) called by several goroutines,   *)
(* lock section by lock section, and the callback it queues                *)
(***************************************************************************)
\* what these steps leave alone of the viewer
notWriterStep == <<loadPc, viewUpdates, viewTail, viewHandle>>

\* Write, first lock section (lines 40-57): the bytes join lineBuf; without a
\* newline the call returns; otherwise the complete lines are taken and the
\* rest stays in lineBuf.
WriteBuffer(w, p) ==
    /\ writers[w].pc = "idle"
    /\ writes < MaxWrites
    /\ writes' = writes + 1
    /\ IF p.lines = 0
       THEN /\ lineBuf' = TRUE
            /\ UNCHANGED writers
       ELSE /\ lineBuf' = p.partial
            /\ writers' = [writers EXCEPT ![w] = [pc |-> "emit", lines |-> p.lines]]
    /\ UNCHANGED <<textView, pending, pendingLines, lineCount, redraws, drawing>>
    /\ UNCHANGED notWriterStep
    /\ UNCHANGED notWriter

\* Write outside the lock (lines 59-75): with a tail filter that keeps no
\* line the call returns; otherwise the lines are written into the text view.
WriteText(w, kept) ==
    /\ writers[w].pc = "emit"
    /\ IF kept
       THEN /\ textView' = textView \o Lines(writers[w].lines, "stream")
            /\ writers' = [writers EXCEPT ![w].pc = "count"]
       ELSE /\ writers' = [writers EXCEPT ![w] = writerIdle]
            /\ UNCHANGED textView
    /\ UNCHANGED <<lineBuf, pending, pendingLines, lineCount, writes, redraws, drawing>>
    /\ UNCHANGED notWriterStep
    /\ UNCHANGED notWriter

\* mutation of WriteQueue: a callback is queued by every call
WriteQueue_Unthrottled(w) ==
    /\ writers[w].pc = "count"
    /\ pendingLines' = pendingLines + writers[w].lines
    /\ pending' = TRUE
    /\ redraws' = redraws + 1
    /\ writers' = [writers EXCEPT ![w] = writerIdle]
    /\ UNCHANGED <<textView, lineBuf, lineCount, writes, drawing>>
    /\ UNCHANGED notWriterStep
    /\ UNCHANGED notWriter

\* Write, second lock section (lines 77-93): the lines are added to
\* pendingLines and, unless pending is set, pending is set and a goroutine is
\* started that hands the callback to QueueUpdateDraw.
WriteQueue(w) ==
    /\ writers[w].pc = "count"
    /\ pendingLines' = pendingLines + writers[w].lines
    /\ pending' = TRUE
    /\ redraws' = IF pending THEN redraws ELSE redraws + 1
    /\ writers' = [writers EXCEPT ![w] = writerIdle]
    /\ UNCHANGED <<textView, lineBuf, lineCount, writes, drawing>>
    /\ UNCHANGED notWriterStep
    /\ UNCHANGED notWriter

\* The event loop starts a queued callback (lines 83-88): ScrollToEnd, then
\* under the lock pendingLines is taken and pending is reset.
RedrawStart ==
    /\ redraws > 0 /\ drawing = -1
    /\ redraws' = redraws - 1
    /\ drawing' = pendingLines
    /\ pendingLines' = 0
    /\ pending' = FALSE
    /\ UNCHANGED <<textView, lineBuf, lineCount, writes, writers>>
    /\ UNCHANGED notWriterStep
    /\ UNCHANGED notWriter

\* The callback ends with addLines (lines 89, 230-235).
RedrawEnd ==
    /\ drawing # -1
    /\ lineCount' = lineCount + drawing
    /\ drawing' = -1
    /\ UNCHANGED <<textView, lineBuf, pending, pendingLines, writes, writers, redraws>>
    /\ UNCHANGED notWriterStep
    /\ UNCHANGED notWriter

WriterNext ==
    \/ \E w \in Writers, p \in Chunks : WriteBuffer(w, p)
    \/ \E w \in Writers, kept \in BOOLEAN : WriteText(w, kept)
    \/ \E w \in Writers : WriteQueue(w)
    \/ RedrawStart
    \/ RedrawEnd

SpecWriter == Init /\ [][WriterNext]_vars

(***************************************************************************)
(* ListFiles, parseLsOutput, filterByPatterns (part_009:34-53, 219-273)    *)
(* A line of the output is the sequence of its fields (strings.Fields of   *)
(* the trimmed line).  Patterns use literal characters, * and ?; names     *)
(* hold no path separator.                                                 *)
(***************************************************************************)
\* the bytes of the strings that occur
Chars ==
    "a.log" :> <<"a", ".", "l", "o", "g">> @@
    "b.txt" :> <<"b", ".", "t", "x", "t">> @@
    "a.log.1" :> <<"a", ".", "l", "o", "g", ".", "1">> @@
    "." :> <<".">> @@
    ".." :> <<".", ".">> @@
    "arch" :> <<"a", "r", "c", "h">> @@
    "my x.log" :> <<"m", "y", " ", "x", ".", "l", "o", "g">> @@
    "my" :> <<"m", "y">> @@
    "x.log" :> <<"x", ".", "l", "o", "g">> @@
    "-rw-r--r--" :> <<"-", "r", "w", "-", "r", "-", "-", "r", "-", "-">> @@
    "drwxr-xr-x" :> <<"d", "r", "w", "x", "r", "-", "x", "r", "-", "x">> @@
    "120" :> <<"1", "2", "0">> @@
    "7" :> <<"7">> @@
    "2048" :> <<"2", "0", "4", "8">> @@
    "4096" :> <<"4", "0", "9", "6">> @@
    "1" :> <<"1">> @@
    "root" :> <<"r", "o", "o", "t">> @@
    "total" :> <<"t", "o", "t", "a", "l">> @@
    "12" :> <<"1", "2">> @@
    "2024-01-15" :> <<"2", "0", "2", "4", "-", "0", "1", "-", "1", "5">> @@
    "10:30:00.000000000" :> <<"1", "0", ":", "3", "0", ":", "0", "0", ".", "0", "0", "0", "0", "0", "0", "0", "0", "0">> @@
    "+0000" :> <<"+", "0", "0", "0", "0">> @@
    "*.log*" :> <<"*", ".", "l", "o", "g", "*">> @@
    "*.txt" :> <<"*", ".", "t", "x", "t">> @@
    "a*" :> <<"a", "*">> @@
    "?.log" :> <<"?", ".", "l", "o", "g">>

\* the byte values, which order strings under <
Code ==
    " " :> 32 @@ "*" :> 42 @@ "+" :> 43 @@ "-" :> 45 @@ "." :> 46 @@ "0"
    :> 48 @@ "1" :> 49 @@ "2" :> 50 @@ "3" :> 51 @@ "4" :> 52 @@ "5" :> 53
    @@ "6" :> 54 @@ "7" :> 55 @@ "8" :> 56 @@ "9" :> 57 @@ ":" :> 58 @@
    "?" :> 63 @@ "a" :> 97 @@ "b" :> 98 @@ "c" :> 99 @@ "d" :> 100 @@ "g"
    :> 103 @@ "h" :> 104 @@ "l" :> 108 @@ "m" :> 109 @@ "o" :> 111 @@ "r"
    :> 114 @@ "t" :> 116 @@ "w" :> 119 @@ "x" :> 120 @@ "y" :> 121

\* number of lines in the output of ls
MaxLsLines == 3

\* a line of ls -la --time-style=full-iso: permissions, links, owner, group,
\* size, date, time, zone, then the name
LsLine(perm, size, name) ==
    <<perm, "1", "root", "root", size, "2024-01-15", "10:30:00.000000000", "+0000">> \o name
ALog == LsLine("-rw-r--r--", "120", <<"a.log">>)
BTxt == LsLine("-rw-r--r--", "7", <<"b.txt">>)
ALog1 == LsLine("-rw-r--r--", "2048", <<"a.log.1">>)
Truncated == SubSeq(ALog, 1, 8)
\* the lines an output is made of: the total line, an empty line, files, a
\* name with a space, a directory, "." and "..", and lines cut short
LsLines ==
    {<<"total", "12">>, <<>>, ALog, BTxt, ALog1, Truncated, SubSeq(BTxt, 1, 5),
     LsLine("-rw-r--r--", "7", <<"my", "x.log">>),
     LsLine("drwxr-xr-x", "4096", <<"arch">>),
     LsLine("drwxr-xr-x", "4096", <<".">>),
     LsLine("drwxr-xr-x", "4096", <<"..">>)}
LsOutputs == UNION {[1..n -> LsLines] : n \in 0..MaxLsLines}
PatternLists == {<<>>, <<"*.log*">>, <<"*.txt">>, <<"*.txt", "a*">>, <<"?.log">>}

\* strings.HasPrefix(s, prefix), on the bytes
RECURSIVE HasPrefix(_, _)
HasPrefix(s, prefix) ==
    IF prefix = <<>> THEN TRUE
    ELSE s # <<>> /\ Head(s) = Head(prefix) /\ HasPrefix(Tail(s), Tail(prefix))

\* strings.Join(fields, " ")
RECURSIVE Join(_)
Join(fields) ==
    IF Len(fields) = 1 THEN fields[1] ELSE fields[1] \o " " \o Join(Tail(fields))

\* strconv.ParseInt(s, 10, 64) with its error dropped (line 239): the value
\* of the digits, 0 when a byte is not a digit
RECURSIVE ParseDigits(_, _)
ParseDigits(cs, acc) ==
    IF cs = <<>> THEN acc
    ELSE IF Code[Head(cs)] \in 48..57
         THEN ParseDigits(Tail(cs), 10 * acc + (Code[Head(cs)] - 48))
         ELSE -1
ParseInt(str) ==
    LET v == ParseDigits(Chars[str], 0) IN IF Chars[str] = <<>> \/ v < 0 THEN 0 ELSE v

\* parseLsOutput (lines 221-259), line by line: empty lines, lines that
\* begin with "total", lines of fewer than 9 fields and the names "." and
\* ".." give nothing; another line gives its FileInfo (ModTime, which no
\* property reads, is left out).
RECURSIVE parseLsOutput(_)
parseLsOutput(output) ==
    IF output = <<>> THEN <<>>
    ELSE LET fields == Head(output)
             rest == parseLsOutput(Tail(output))
         IN IF fields = <<>> \/ HasPrefix(Chars[fields[1]], Chars["total"]) THEN rest
            ELSE IF Len(fields) < 9 THEN rest
            ELSE LET name == Join(SubSeq(fields, 9, Len(fields))) IN
                 IF name = "." \/ name = ".." THEN rest
                 ELSE <<[Name |-> name, Size |-> ParseInt(fields[5]),
                         IsDir |-> Chars[fields[1]][1] = "d"]>> \o rest

\* filepath.Match(pattern, name) on the bytes: * matches any run of bytes,
\* ? one byte, another byte itself
RECURSIVE Match(_, _)
Match(pattern, name) ==
    IF pattern = <<>> THEN name = <<>>
    ELSE IF Head(pattern) = "*"
         THEN Match(Tail(pattern), name) \/ (name # <<>> /\ Match(pattern, Tail(name)))
    ELSE IF Head(pattern) = "?"
         THEN name # <<>> /\ Match(Tail(pattern), Tail(name))
    ELSE name # <<>> /\ Head(name) = Head(pattern) /\ Match(Tail(pattern), Tail(name))

\* filterByPatterns (lines 261-273): the files that some pattern matches, in
\* their order
filterByPatterns(files, patterns) ==
    SelectSeq(files, LAMBDA f :
        \E k \in 1..Len(patterns) : Match(Chars[patterns[k]], Chars[f.Name]))

\* a < b on strings: the first differing byte decides, a proper prefix is less
RECURSIVE LessBytes(_, _)
LessBytes(x, y) ==
    IF y = <<>> THEN FALSE
    ELSE IF x = <<>> THEN TRUE
    ELSE IF Head(x) = Head(y) THEN LessBytes(Tail(x), Tail(y))
    ELSE Code[Head(x)] < Code[Head(y)]
Less(a, b) == LessBytes(Chars[a], Chars[b])

\* sort.Slice(files, less by Name) (lines 47-50).  Entries of one name come
\* from equal lines here, so their order does not show.
RECURSIVE SortByName(_)
SortByName(files) ==
    IF files = <<>> THEN <<>>
    ELSE LET f == Head(files)
             sorted == SortByName(Tail(files))
         IN SelectSeq(sorted, LAMBDA g : Less(g.Name, f.Name)) \o <<f>> \o
            SelectSeq(sorted, LAMBDA g : ~Less(g.Name, f.Name))

\* mutation of ListFiles: the result is returned as filtered, not sorted
ListFiles_Unsorted(output, patterns) ==
    LET files == parseLsOutput(output) IN
    IF Len(patterns) > 0 THEN filterByPatterns(files, patterns) ELSE files

\* ListFiles (lines 34-53) once runCommand has returned the output
ListFiles(output, patterns) ==
    LET files == parseLsOutput(output) IN
    SortByName(IF Len(patterns) > 0 THEN filterByPatterns(files, patterns) ELSE files)

\* a caller passes an output and patterns
InitListFiles ==
    /\ Components
    /\ lsOutput \in LsOutputs /\ lsPatterns \in PatternLists /\ lsResult = <<>>
    /\ szInput = 0 /\ szResult = ""
    /\ fnCalled = FALSE

\* the call returns
CallListFiles ==
    /\ ~fnCalled
    /\ lsResult' = ListFiles(lsOutput, lsPatterns)
    /\ fnCalled' = TRUE
    /\ UNCHANGED <<lsOutput, lsPatterns, szInput, szResult>>
    /\ UNCHANGED notFn

SpecListFiles == InitListFiles /\ [][CallListFiles]_vars

(***************************************************************************)
(* FormatSize (part_009:275-292)                                           *)
(***************************************************************************)
kb == 1024
mb == kb * 1024
gb == mb * 1024

\* the arguments tried: around zero and around every threshold, the halves
\* and quarters of a unit, and the largest values of each tier below 2^31
Sizes ==
    (-2..12) \cup (1019..1030) \cup {1075, 1076, 1280, 1536, 1792, 10239, 10240}
    \cup ((mb - 60)..(mb + 5)) \cup {mb + mb \div 4, mb + mb \div 2, 5 * mb, 1000 * mb}
    \cup ((gb - 5)..(gb + 5)) \cup {gb + gb \div 4, gb + gb \div 2, gb + (gb - 1)}

\* float64(bytes)/float64(unit) printed with %.1f, in tenths: the quotient is
\* exact (unit is a power of two), and the formatting rounds it to the nearest
\* tenth, a tie to the even digit.  r = a*1024 + b with s = unit/1024 keeps
\* the arithmetic within 32 bits.
Tenths(bytes, unit) ==
    LET s == unit \div 1024
        q == bytes \div unit
        r == bytes % unit
        a == r \div 1024
        b == r % 1024
        n == 10 * a + (10 * b) \div 1024
        low == (10 * b) % 1024
        down == n \div s
        rem == n % s
        up == \/ 2 * rem > s
              \/ 2 * rem = s /\ (low > 0 \/ down % 2 = 1)
              \/ 2 * rem = s - 1 /\ (low > 512 \/ (low = 512 /\ down % 2 = 1))
    IN 10 * q + down + (IF up THEN 1 ELSE 0)

\* fmt.Sprintf("%.1f" + unit, x) for x given in tenths
Sprintf1f(tenths, unit) ==
    ToString(tenths \div 10) \o "." \o ToString(tenths % 10) \o unit

\* mutation of FormatSize: the thresholds are compared with > instead of >=
FormatSize_StrictThresholds(bytes) ==
    IF bytes > gb THEN Sprintf1f(Tenths(bytes, gb), "G")
    ELSE IF bytes > mb THEN Sprintf1f(Tenths(bytes, mb), "M")
    ELSE IF bytes > kb THEN Sprintf1f(Tenths(bytes, kb), "K")
    ELSE ToString(bytes) \o "B"

\* FormatSize (lines 276-291)
FormatSize(bytes) ==
    IF bytes >= gb THEN Sprintf1f(Tenths(bytes, gb), "G")
    ELSE IF bytes >= mb THEN Sprintf1f(Tenths(bytes, mb), "M")
    ELSE IF bytes >= kb THEN Sprintf1f(Tenths(bytes, kb), "K")
    ELSE ToString(bytes) \o "B"

\* a caller passes a size
InitFormatSize ==
    /\ Components
    /\ lsOutput = <<>> /\ lsPatterns = <<>> /\ lsResult = <<>>
    /\ szInput \in Sizes /\ szResult = ""
    /\ fnCalled = FALSE

\* the call returns
CallFormatSize ==
    /\ ~fnCalled
    /\ szResult' = FormatSize(szInput)
    /\ fnCalled' = TRUE
    /\ UNCHANGED <<lsOutput, lsPatterns, lsResult, szInput>>
    /\ UNCHANGED notFn

SpecFormatSize == InitFormatSize /\ [][CallFormatSize]_vars

(***************************************************************************)
(* Claims about the App                                                    *)
(***************************************************************************)
\* C4 (stale suppression on connect), the claim as stated: every update (a
\* listing, an error) that a connect-and-list goroutine queued and that the
\* event loop executes belongs to the server that is selected at that moment;
\* an update of a connect for a server the user has left is never executed.
C4_StaleSuppression ==
    [][\A u \in pendingGo \ pendingGo' :
          (loopRunning /\ u.origin = "connect") => u.srv = currentServer]_vars

\* the tails that stream into the viewer and have not been cancelled
ActiveTails == {i \in TaskIds : tails[i].state = "streaming" /\ ~tails[i].cancelled}

\* C5 (one active tail), the claim as stated: in every reachable state at most
\* one Tailer has been started, is still streaming and has not been cancelled.
C5_OneActiveTail == Cardinality(ActiveTails) <= 1

\* the connect attempts that are running under a context nobody has cancelled
LiveConnects == {i \in TaskIds : tasks[i].origin = "connect" /\ tasks[i].ctx = "live"}

\* C6 (one outstanding connect), the claim as stated: in every reachable state
\* at most one connect attempt is running with a context that is not cancelled.
C6_OneOutstandingConnect == Cardinality(LiveConnects) <= 1

\* C9 (shutdown bound): once Run has returned and shutdown has started,
\* shutdown reaches its end, after pool.CloseAll, whatever the Tailer's loop
\* does; and it ends only with the pool closed.
C9_ShutdownTerminates ==
    /\ (shutdownPc = "store") ~> (shutdownPc = "done")
    /\ [](shutdownPc = "done" => closeAllDone)

\* C9 witness: shutdown has cancelled a tail, has stopped waiting for it and
\* has returned with the pool closed, while the Tailer's loop is still running.
C9_Witness ==
    /\ shutdownPc = "done" /\ closeAllDone
    /\ shutdownTailer # NoTask
    /\ tails[shutdownTailer].state = "streaming"
    /\ tails[shutdownTailer].cancelled

\* C10 (update dispatch), the claim as stated: once shutdown has set stopped,
\* no update function is handed to QueueUpdateDraw any more.
C10_NoHandOffAfterStop ==
    [][\A u \in pendingGo \ pendingGo' : stopped = 0]_vars

\* C17: no loop/tail deadlock.  While the event loop runs, every handler
\* that stops a tail (select server, select folder, up-directory, select
\* file, stop tail, filter prompt) and refresh can run as soon as a.mu is
\* free and its own precondition on the selection holds, whatever the loops
\* of the Tailers are doing; a goroutine that holds a.mu releases it without
\* waiting for anything; and the one wait for a Tailer's loop, in shutdown,
\* happens after the event loop has stopped and can always end by its timer.
C17_NoLoopTailDeadlock ==
    /\ (loopRunning /\ mu = muFree) =>
         /\ \A srv \in Servers :
              (Cardinality(EffectiveFolders(srv)) > 1 \/ FreeTask # NoTask)
                  => ENABLED onServerSelected(srv)
         /\ (pane.mode = "folders" /\ currentServer # "none" /\ FreeTask # NoTask)
              => \A folder \in EffectiveFolders(pane.srv) : ENABLED onFolderSelected(folder)
         /\ (pane.mode = "files" /\ pane.hasUpDir) => ENABLED onUpDir
         /\ (pane.mode = "files" /\ currentServer # "none" /\ currentFolder # "none"
                /\ FreeTask # NoTask)
              => \A file \in Files : ENABLED onFileSelected(file)
         /\ tailer # NoTask => ENABLED StopTail
         /\ (currentServer # "none" /\ currentFolder # "none" /\ currentFile # "none"
                /\ FreeTask # NoTask)
              => ENABLED ShowFilterPrompt
         /\ (currentServer # "none" /\ currentFolder # "none" /\ FreeTask # NoTask)
              => ENABLED RefreshFiles
    /\ \A i \in TaskIds : mu = muTask(i) => ENABLED LoadTailInstall(i)
    /\ shutdownPc = "wait" => (~loopRunning /\ ENABLED ShutdownTimeout)

\* the event loop runs and is free to take the next handler although a
\* Tailer it has cancelled is still streaming and an update of that Tailer's
\* goroutine still waits to be handed to the loop
C17_Witness ==
    /\ loopRunning /\ mu = muFree
    /\ \E i \in TaskIds :
         /\ tails[i].state = "streaming" /\ tails[i].cancelled
         /\ \E u \in pendingGo : u.task = i

\* C22: stop tail.  A StopTail step can be taken whenever the event loop runs
\* and a.mu is free, whatever the Tailers' loops are doing; it cancels the
\* context of the installed tail, changes the state of no Tailer's loop,
\* leaves tailer, tailCtx and tailCancel nil, and leaves the selection, the
\* connect handle and the connect goroutines as they are; with no tail
\* installed it changes nothing.
C22_StopTail ==
    /\ []((loopRunning /\ mu = muFree) => ENABLED StopTail)
    /\ [][StopTail =>
            /\ tailer' = NoTask /\ tailCtx' = NoTask /\ tailCancel' = NoTask
            /\ tailer # NoTask => tails'[tailCancel].cancelled
            /\ \A i \in TaskIds : tails'[i].state = tails[i].state
            /\ UNCHANGED <<currentServer, currentFolder, currentFile, connectCancel, tasks>>
            /\ tailer = NoTask => UNCHANGED appVars]_vars

\* StopTail has acted on a streaming tail: nothing is installed, the Tailer
\* is cancelled and still streaming, the file is still selected and no other
\* goroutine is loading it
C22_Witness ==
    /\ loopRunning
    /\ tailer = NoTask /\ tailCancel = NoTask
    /\ currentFile # "none"
    /\ \E i \in TaskIds : tails[i].state = "streaming" /\ tails[i].cancelled
    /\ \A i \in TaskIds : tasks[i].kind # "tail"

\* the program points inside a network call: GetClient, ListFiles,
\* ReadFileContent, StartTail and DownloadFile on the goroutines
NetworkPcs == {"getClient", "list", "read", "start", "download"}

\* C18: Coordinator lock discipline.  In every reachable state the holder of
\* a.mu is inside a locked section: a goroutine that holds it is between
\* lines 819 and 823, shutdown holds it only between lines 956 and 964/977;
\* so no goroutine inside GetClient, ListFiles, ReadFileContent, StartTail or
\* DownloadFile holds it, and shutdown does not hold it while it waits for
\* Tailer.Stop or runs CloseAll.
C18_CoordinatorLockDiscipline ==
    /\ \A i \in TaskIds :
         /\ mu = muTask(i) => tasks[i].pc = "locked"
         /\ tasks[i].pc \in NetworkPcs => mu # muTask(i)
    /\ mu = muShutdown => shutdownPc = "locked"
    /\ shutdownPc \in {"wait", "closeAll"} => mu # muShutdown

\* a goroutine holds a.mu while another one is inside a network call
C18_Witness ==
    \E i, j \in TaskIds :
        /\ mu = muTask(i)
        /\ tasks[j].pc \in NetworkPcs

\* C12 (connect failure classification), the claim as stated: when the
\* GetClient call of a connect attempt fails, nothing is queued if the attempt
\* was cancelled, and in every other case, the attempt's deadline having
\* passed included, the connection error is queued (unless shutdown has set
\* stopped, when every update is dropped).
C12_ConnectFailure ==
    [][\A i \in TaskIds :
          (tasks[i].origin = "connect" /\ tasks[i].pc = "getClient"
                                       /\ tasks'[i] = taskDone) =>
              IF tasks[i].ctx = "cancelled"
              THEN pendingGo' = pendingGo
              ELSE stopped = 0 =>
                     \E u \in pendingGo' \ pendingGo : u.task = i /\ u.what = "connErr"]_vars

\* C20 (select server), the claim as stated: when onServerSelected(srv) has
\* run, every tail that was active is cancelled and the tail handle is clear,
\* every connect attempt that was in flight is cancelled, srv is the current
\* server and no file is current; for a multi-folder server no folder is
\* current and no connect attempt is started, for a single-folder server its
\* folder is current and one connect attempt is started and remembered.
C20_SelectServer ==
    [][\A srv \in Servers :
          onServerSelected(srv) =>
              /\ tailer' = NoTask /\ tailCtx' = NoTask /\ tailCancel' = NoTask
              /\ \A i \in ActiveTails : tails'[i].cancelled
              /\ \A i \in LiveConnects : tasks'[i].ctx = "cancelled"
              /\ currentServer' = srv /\ currentFile' = "none"
              /\ IF Cardinality(EffectiveFolders(srv)) > 1
                 THEN /\ currentFolder' = "none"
                      /\ connectCancel' = NoTask
                      /\ \A i \in TaskIds : tasks[i].kind = "none" => tasks'[i].kind = "none"
                 ELSE /\ currentFolder' \in EffectiveFolders(srv)
                      /\ connectCancel' # NoTask
                      /\ tasks[connectCancel'].kind = "none"
                      /\ tasks'[connectCancel'] = filesTask("connect", srv)]_vars

C8_TailCancellation ==
    (tl.pc = "exited" /\ tl.ctxAtSelect) => (tl.signals = 1 /\ tl.cbCalls = 0)

\* C8 as amended: once the Tailer is cancelled the loop exits with the channel
\* closed and a waiting Stop returns; if the select took the cancellation
\* branch, the termination signal was sent once and the callback was not
\* invoked. (If the copy has also ended when the select runs, the select may
\* take the copy's branch instead: no signal, and the callback as in C7.)
C8_TailCancellationAmended ==
    /\ []((tl.pc = "exited" /\ tl.branch = "cancel") =>
              (tl.signals = 1 /\ tl.cbCalls = 0 /\ tl.err = "unset"))
    /\ [](tl.pc = "exited" => (~tl.sessOpen /\ tl.closes >= 1))
    /\ [](stopPc = "returned" => tl.pc = "exited")
    /\ ((TailerExists /\ tl.ctxDone) ~> (tl.pc = "exited"))
    /\ ((stopPc = "waiting") ~> (stopPc = "returned"))

\* C8 witness: Stop has cancelled a streaming Tailer and has returned; the
\* loop took the cancellation branch, signalled and closed.
C8_Witness ==
    /\ stopPc = "returned" /\ tl.pc = "exited" /\ tl.branch = "cancel"
    /\ tl.signals = 1 /\ tl.cbCalls = 0 /\ tl.errCallback = "set"

(***************************************************************************)
(* Claims about the pool, checked under SpecPool.                          *)
(***************************************************************************)
\* The probe's select ended on a failed or timed-out probe.
ProbeDead(t) == gc[t].probe \in {"err", "timeout"}

\* C1 (pool reuse): a GetClient call that finds a session cached by an
\* earlier successful call, and whose keepalive probe succeeds, returns that
\* same session, without error and without dialing.
C1_PoolReuse ==
    \A t \in Callers :
        (gc[t].pc = "done" /\ gc[t].probe = "ok") =>
            /\ gc[t].ret = gc[t].c
            /\ gc[t].c \in everStored
            /\ gc[t].err = "none"
            /\ ~gc[t].dialed

\* C1 witness: an earlier call has dialed and cached a session, and a later
\* call, made while no other call is running, has returned it after a
\* successful probe.
C1_Witness ==
    \E t \in Callers :
        /\ gc[t].pc = "done" /\ gc[t].probe = "ok"
        /\ gc[t].ret # NoSession /\ gc[t].ret \in everStored
        /\ clients[gc[t].key] = gc[t].ret
        /\ \A u \in Callers \ {t} : gc[u].pc = "idle"

\* C2 (pool eviction), the claim as stated: a call whose probe failed or
\* timed out does not return the dead session and leaves it out of the cache,
\* and no session is closed more than once by GetClient calls (CloseAll not
\* having run).
C2_PoolEviction ==
    /\ \A t \in Callers :
          (gc[t].pc = "done" /\ ProbeDead(t)) =>
              (gc[t].ret # gc[t].c /\ clients[gc[t].key] # gc[t].c)
    /\ ~closeAllDone => \A s \in Sessions : closeCalls[s] <= 1

\* C3 (one live session per key), the claim as stated: every session that a
\* GetClient call has dialed and stored and that is not closed is the one the
\* cache holds for its key.
C3_OneLiveSessionPerKey ==
    \A s \in Sessions :
        (s \in everStored /\ sessState[s] = "open") => clients[sessKey[s]] = s

C14_CancelAfterHandshake ==
    /\ [](\A t \in Callers :
            (gc[t].pc = "done" /\ gc[t].client # NoSession /\ gc[t].ret = NoSession) =>
                /\ gc[t].err = "cancelled"
                /\ sessState[gc[t].client] = "closed"
                /\ closeCalls[gc[t].client] = 1
                /\ gc[t].client \notin everStored
                /\ \A k \in Keys : clients[k] # gc[t].client)
    /\ [][\A t \in Callers :
            (gc[t].pc = "dialCheck" /\ gc[t].cancelled /\ gc'[t].pc # "dialCheck") =>
                (gc'[t].pc = "done" /\ clients' = clients)]_vars

\* C14 witness: the handshake of a call completed, the cancellation was there
\* at the re-check, and the call has returned the error with the new
\* connection closed.
C14_Witness ==
    \E t \in Callers :
        /\ gc[t].pc = "done" /\ gc[t].cancelled /\ gc[t].err = "cancelled"
        /\ gc[t].client # NoSession /\ gc[t].ret = NoSession
        /\ sessState[gc[t].client] = "closed"

\* the sessions the cache holds
Cached == {s \in Sessions : \E k \in Keys : clients[k] = s}

\* C15 (CloseAll): the step of CloseAll closes every session the cache held
\* when it took the lock, calling Close on each exactly once and on no other
\* session, and leaves the cache empty.
C15_CloseAll ==
    [][(~closeAllDone /\ closeAllDone') =>
          /\ \A k \in Keys : clients'[k] = NoSession
          /\ \A s \in Sessions :
                IF s \in Cached
                THEN sessState'[s] = "closed" /\ closeCalls'[s] = closeCalls[s] + 1
                ELSE sessState'[s] = sessState[s] /\ closeCalls'[s] = closeCalls[s]]_vars

\* C15 witness: the only GetClient call made has cached a session; CloseAll
\* has run, the session is closed by one Close call and the cache is empty.
C15_Witness ==
    /\ closeAllDone /\ calls = 1
    /\ \E s \in everStored : sessState[s] = "closed" /\ closeCalls[s] = 1
    /\ \A k \in Keys : clients[k] = NoSession

refreshFrame == <<tailer, tailCtx, tailCancel, connectCancel, currentServer,
                  currentFolder, currentFile>>

C23_Refresh ==
    /\ [][RefreshSudoFiles =>
            /\ flow'.srv = currentServer /\ flow'.folder = currentFolder
            /\ currentServer # "none" /\ currentFolder # "none"
            /\ UNCHANGED refreshFrame]_vars
    /\ [][(flow.origin = "refresh" /\ flow' # flow) => UNCHANGED refreshFrame]_vars
    /\ [][(prompt.origin = "refresh" /\ prompt' = noPrompt) => UNCHANGED refreshFrame]_vars

\* C29: Password retry repeats the same operation.  When the prompt that a
\* failed privileged listing opened is answered, either the answer is empty
\* and nothing is started and the password stays cleared, or the password is
\* cached for the prompt's Target and a listing starts for the server and the
\* folder of the failed listing.
C29_RetrySameOperation ==
    [][(prompt.origin \in {"connect", "refresh"} /\ prompt' = noPrompt) =>
          \/ /\ UNCHANGED <<sudoPasswords, flow, attempts>>
             /\ sudoPasswords[prompt.srv] = NoPassword
          \/ /\ sudoPasswords'[prompt.srv] # NoPassword
             /\ flow'.pc = "connect"
             /\ flow'.srv = prompt.srv
             /\ flow'.folder = prompt.folder]_vars

\* C30: Privilege-authentication failure in the other privileged
\* operations.  When ReadFileContent or DownloadFile has returned an error
\* whose message contains "sudo authentication failed", the step of
\* loadAndTailFile or downloadFile that handles it (before shutdown) clears
\* the Target's cached password and queues the re-prompt, and does not queue
\* the generic read or download error.
C30_PrivilegeFailureOtherOps ==
    [][(/\ flow.pc = "fileop" /\ flow'.pc = "idle"
        /\ ~op.err.isNil /\ Contains(op.err.text, SudoAuthFailed)
        /\ stopped = 0)
       => /\ sudoPasswords'[flow.srv] = NoPassword
          /\ \E u \in sudoUpdates' : u.what = "reprompt" /\ u.srv = flow.srv
          /\ \A u \in sudoUpdates' \ sudoUpdates : u.what \notin {"readErr", "dlErr"}]_vars

\* C28: Stale suppression on file load.  What a load-and-tail goroutine
\* produces takes effect only while the server it was started for is still
\* selected with a file: an update it queued (content, error, "Tailing") is
\* executed by the event loop only then, and its Tailer is installed as the
\* tail handle only then.
C28_StaleFileLoad ==
    /\ [][\A u \in pendingGo \ pendingGo' :
            (loopRunning /\ u.origin = "file"
             /\ u.what \in {"content", "connErr", "readErr", "tailErr", "tailing"})
            => (u.srv = currentServer /\ currentFile # "none")]_vars
    /\ [][\A i \in TaskIds :
            LoadTailInstall(i) => (tasks[i].srv = currentServer /\ currentFile # "none")]_vars

\* C24: Stop idempotence.  A Stop called after an earlier Stop has returned,
\* or after the loop has exited on its own, finds done closed: it changes
\* nothing of the Tailer but the (already useless) context, its wait can
\* return at once, its return changes nothing, and no step of the loop
\* follows: no signal, no Close, no callback.
C24_StopIdempotent ==
    /\ [][(StopCancel /\ (stopCalls >= 1 \/ tl.pc = "exited")) =>
            /\ tl' = [tl EXCEPT !.ctxDone = TRUE]
            /\ tl'.pc = "exited"]_vars
    /\ []((stopPc = "waiting" /\ (stopCalls >= 2 \/ tl.pc = "exited")) => ENABLED StopReturn)
    /\ [][StopReturn => UNCHANGED tl]_vars
    /\ [](tl.pc = "exited" => ~ENABLED TailLoop)

\* C24 witness: the stream ended on its own, and two Stop calls, one after
\* the other, have returned since; nothing was signalled.
C24_Witness ==
    /\ stopCalls = 2 /\ stopPc = "returned"
    /\ tl.pc = "exited" /\ tl.branch = "natural" /\ tl.signals = 0

Streamed(tv) == Len(SelectSeq(tv, LAMBDA x : x = "stream"))

\* C21: Select file ordering.  No line of the stream is in the text view
\* while the initial content of the selection has not been set; a step never
\* removes a streamed line from the text view; and the tail handle is stored
\* only when the Tailer has started.
C21_SelectFileOrdering ==
    /\ [](Streamed(textView) > 0 =>
              \A u \in viewUpdates : u.what # "content")
    /\ [][Streamed(textView') >= Streamed(textView)]_vars
    /\ [](viewHandle => viewTail = "streaming")

\* C27: Size formatting.  The unit is B below 1024, K below 1024^2, M below
\* 1024^3 and G from there on; bytes are printed as the integer; the other
\* tiers are printed as an integer part, a point and one digit; and
\* FormatSize(0) = "0B", FormatSize(1536) = "1.5K", FormatSize(1048576) =
\* "1.0M".
C27_FormatSize ==
    fnCalled =>
        /\ szInput < kb => szResult = ToString(szInput) \o "B"
        /\ szInput >= kb =>
              \E whole \in 0..1024, digit \in 0..9 :
                  szResult = ToString(whole) \o "." \o ToString(digit) \o
                                (IF szInput < mb THEN "K"
                                 ELSE IF szInput < gb THEN "M" ELSE "G")
        /\ szInput = 0 => szResult = "0B"
        /\ szInput = 1536 => szResult = "1.5K"
        /\ szInput = 1048576 => szResult = "1.0M"

\* C27 witness: FormatSize(1536) has returned "1.5K"
C27_Witness == fnCalled /\ szInput = 1536 /\ szResult = "1.5K"

\* the name on a line that has all the fields
LineName(l) == Join(SubSeq(l, 9, Len(l)))
\* a line that stands for an entry: all the fields, not the total line, not
\* "." or ".."
WellFormed(l) == Len(l) >= 9 /\ l[1] # "total" /\ LineName(l) \notin {".", ".."}
\* the name passes the patterns
Wanted(name, patterns) ==
    patterns = <<>> \/ \E k \in 1..Len(patterns) : Match(Chars[patterns[k]], Chars[name])
\* how often x occurs in the sequence q
Count(q, x) == Cardinality({k \in 1..Len(q) : q[k] = x})
\* the names of the entries
Names(files) == [k \in 1..Len(files) |-> files[k].Name]

\* C26: Listing result.  ListFiles returns one entry for every well-formed
\* line whose name passes the patterns (every name when there are none) and
\* no other entry, in ascending order of name; {a.log, b.txt, a.log.1} with
\* *.log* give a.log, a.log.1; a well-formed and a truncated line give one
\* entry.
C26_ListingResult ==
    fnCalled =>
        /\ \A l \in LsLines :
              WellFormed(l) =>
                  Count(Names(lsResult), LineName(l)) =
                      (IF Wanted(LineName(l), lsPatterns) THEN Count(lsOutput, l) ELSE 0)
        /\ \A k \in 1..Len(lsResult) :
              \E l \in LsLines : WellFormed(l) /\ LineName(l) = lsResult[k].Name
        /\ \A j, k \in 1..Len(lsResult) : j < k => ~Less(lsResult[k].Name, lsResult[j].Name)
        /\ (lsOutput = <<ALog, BTxt, ALog1>> /\ lsPatterns = <<"*.log*">>) =>
               Names(lsResult) = <<"a.log", "a.log.1">>
        /\ (lsOutput = <<ALog, Truncated>> /\ lsPatterns = <<>>) => Len(lsResult) = 1

\* C26 witness: the three entries listed b.txt first, with *.log*, have given
\* a.log and a.log.1 in that order
C26_Witness ==
    /\ fnCalled
    /\ lsOutput = <<BTxt, ALog1, ALog>> /\ lsPatterns = <<"*.log*">>
    /\ Names(lsResult) = <<"a.log", "a.log.1">>

(***************************************************************************)
(* Claims about the classification of a privileged command's failure       *)
(***************************************************************************)
\* the captured stderr holds one of the markers of part_009:203
HasMarker(stderr) ==
    Contains(stderr, SorryTryAgain) \/ Contains(stderr, IncorrectPassword)

\* the authentication failure as the operation of that kind returns it
AuthFailure(kind) ==
    IF kind = "download" THEN Errorf({SudoAuthFailed})
    ELSE wrapErr(kind, Errorf({SudoAuthFailed}))

\* a generic command failure: the message names the command that was run and
\* embeds the captured stderr
GenericFailure(err, stderr) ==
    ~err.isNil /\ Contains(err.text, "running") /\ stderr \subseteq err.text

\* a privileged command has run to completion and the operation has returned
PrivilegedRan ==
    op.pc = "returned" /\ op.pw # NoPassword /\ op.out.o = "ran"

\* C31 as stated: for a privileged command whose captured stderr contains
\* 'Sorry, try again' or 'incorrect password' the result is the distinct
\* authentication failure, never a generic failure and never success; a
\* non-zero exit without a marker is a generic error that embeds the command
\* and the captured stderr.
C31_AuthClassification ==
    PrivilegedRan =>
        /\ HasMarker(op.out.stderr) => op.err = AuthFailure(op.kind)
        /\ (~op.out.exitOK /\ ~HasMarker(op.out.stderr)) =>
                GenericFailure(op.err, op.out.stderr)

\* C31 amended: the markers are looked for only when the privileged command
\* exits non-zero: then a marker in stderr gives the distinct authentication
\* failure and no marker gives the generic error embedding the command and
\* the stderr; a command that exits zero succeeds whatever its stderr holds.
C31_AuthClassificationAmended ==
    PrivilegedRan =>
        /\ (~op.out.exitOK /\ HasMarker(op.out.stderr)) =>
                /\ op.err = AuthFailure(op.kind)
                /\ ~Contains(op.err.text, "running")
        /\ (~op.out.exitOK /\ ~HasMarker(op.out.stderr)) =>
                GenericFailure(op.err, op.out.stderr)
        /\ op.out.exitOK => op.err = errNil

\* a privileged download failed with 'incorrect password' in its stderr
C31_Witness ==
    /\ PrivilegedRan /\ op.kind = "download"
    /\ ~op.out.exitOK /\ op.out.stderr = {IncorrectPassword}
    /\ op.err = Errorf({SudoAuthFailed})

(***************************************************************************)
(* Claims about the order of the calls of a privileged command             *)
(***************************************************************************)
\* the calls of the protocol, in the order runCommand makes them
ProtocolOrder == <<"start", "write", "closeStdin", "wait">>

\* the calls of the trace that belong to the protocol (DownloadFile's copy of
\* the output is not one of them), by name
StepNames(trace) ==
    LET t == SelectSeq(trace, LAMBDA c : c.step # "copy")
    IN  [i \in 1..Len(t) |-> t[i].step]

\* the calls made so far are the first calls of the protocol, in its order
InOrder == StepNames(px.trace) = SubSeq(ProtocolOrder, 1, Len(StepNames(px.trace)))

\* the channel is closed whenever the function has returned
ChannelClosed == px.pc = "returned" => px.sess # "open"

\* a failed call of one of the given kinds is the last call made, and the
\* function has returned an error
FailureReturns(steps) ==
    \A i \in 1..Len(px.trace) :
        (px.trace[i].step \in steps /\ ~px.trace[i].ok) =>
            /\ i = Len(px.trace)
            /\ px.pc = "returned"
            /\ ~px.err.isNil

\* C32 as stated: on the privileged path the wrapped command is started, then
\* the password and a newline are written, then the input stream is closed,
\* then completion is awaited; a failure at any step returns an error without
\* executing the later steps; the channel is closed on every return path.
C32_ProtocolOrder ==
    /\ InOrder
    /\ FailureReturns({"start", "write", "closeStdin", "copy", "wait"})
    /\ ChannelClosed

\* C32 amended: the same order and the same closing of the channel; a failure
\* of starting, of writing the password, of copying the output or of waiting
\* returns an error without executing the later steps, while a failure of
\* closing the input stream is ignored and completion is still awaited.
C32_ProtocolOrderAmended ==
    /\ InOrder
    /\ FailureReturns({"start", "write", "copy", "wait"})
    /\ ChannelClosed
    /\ (px.trace # <<>> /\ px.trace[Len(px.trace)].step = "closeStdin") =>
            /\ px.pc = IF px.fn = "DownloadFile" THEN "copy" ELSE "wait"
            /\ px.sess = "open"

\* runCommand has made the four calls, each succeeding, and returned with
\* the channel closed
C32_Witness ==
    /\ px.fn = "runCommand" /\ px.pc = "returned" /\ px.sess = "closed"
    /\ px.err.isNil
    /\ StepNames(px.trace) = ProtocolOrder
    /\ \A i \in 1..Len(px.trace) : px.trace[i].ok

C34_RedrawThrottling ==
    /\ redraws <= 1
    /\ pending <=> redraws = 1

\* C34 witness: a callback is outstanding while one goroutine has written
\* its lines and is about to count them and the other is between its lock
\* sections.
C34_Witness ==
    /\ redraws = 1 /\ pending
    /\ writers[1].pc = "count" /\ writers[2].pc = "emit"

(***************************************************************************)
(* Claims about the password prompt of a selection                         *)
(***************************************************************************)
\* a step starts a connect attempt: startConnection launches
\* loadFilesForFolder
ConnectStarts == flow.pc = "idle" /\ flow'.pc = "connect" /\ flow'.origin = "connect"

\* a selection of a Target without a cached password: the prompt opens, no
\* connect attempt starts and the cache is not written
Gated(srv) ==
    sudoPasswords[srv] = NoPassword =>
        /\ prompt'.srv = srv /\ prompt'.origin = "select"
        /\ UNCHANGED <<flow, attempts, sudoPasswords>>

C36_NoTailResurrection ==
    /\ [](currentFile = "none" => tailer = NoTask)
    /\ [][(currentFile = "none" /\ currentFile' = "none") =>
            \A i \in TaskIds :
                tails'[i].state = "streaming" => tails[i].state = "streaming"]_vars

\* C37 (nothing survives shutdown), the claim as stated, for the pool: once
\* CloseAll has run, the cache is empty and stays empty and no Session is
\* open, whatever GetClient calls were in flight when it ran.
C37_NothingSurvivesShutdown ==
    closeAllDone =>
        /\ \A k \in Keys : clients[k] = NoSession
        /\ \A s \in Sessions : sessState[s] # "open"

(***************************************************************************)
(* Claims about the registration of the Tailer's callback                  *)
(***************************************************************************)
\* C38 (late callback registration), the claim as stated: when the stream of
\* an un-cancelled Tailer ended with an error and the loop handled that end
\* before SetErrCallback was called, the callback registered afterwards has
\* been invoked once the loop has exited.
C38_LateCallbackRegistration ==
    (/\ tl.pc = "exited" /\ tl.branch = "natural" /\ ~tl.ctxAtSelect
     /\ tl.err = "err" /\ tl.cb = "nil"
     /\ tl.errCallback = "set")
        => tl.cbCalls = 1

(***************************************************************************)
(* Claims about the eviction of a dead Session                             *)
(***************************************************************************)
\* C39 (eviction removes only the probed Session): the step of a GetClient
\* call that closes the Session it probed closes no other Session; its
\* guarded delete empties the entry of the key if the entry still holds the
\* probed Session, leaves every entry that holds another Session as it is,
\* and closes nothing.
C39_EvictionOnlyProbed ==
    /\ [][\A t \in Callers :
            (gc[t].pc = "close" /\ gc'[t].pc = "evict") =>
                /\ UNCHANGED clients
                /\ \A s \in Sessions \ {gc[t].c} :
                       sessState'[s] = sessState[s] /\ closeCalls'[s] = closeCalls[s]]_vars
    /\ [][\A t \in Callers :
            (gc[t].pc = "evict" /\ gc'[t].pc = "dial") =>
                /\ \A k \in Keys : clients[k] # gc[t].c => clients'[k] = clients[k]
                /\ clients[gc[t].key] = gc[t].c => clients'[gc[t].key] = NoSession
                /\ UNCHANGED <<sessState, closeCalls>>]_vars

\* C39 witness: a call has finished the eviction of the Session it probed
\* while the entry of its key holds another, open Session that a concurrent
\* call stored in the meantime.
C39_Witness ==
    \E t \in Callers :
        /\ gc[t].pc = "dial" /\ gc[t].c # NoSession
        /\ clients[gc[t].key] \notin {NoSession, gc[t].c}
        /\ sessState[clients[gc[t].key]] = "open"
        /\ sessState[gc[t].c] = "closed"

(***************************************************************************)
(* Claims about the three fields of the tail handle                        *)
(***************************************************************************)
\* C40 (tail handle consistency): whenever a.mu is free, a.tailer is set if
\* and only if a.tailCancel is set and if and only if a.tailCtx is set; the
\* same holds when shutdown has just taken the lock; and every step that
\* clears an installed handle finds its cancel function and has cancelled
\* that Tailer's context.
C40_TailHandleConsistency ==
    /\ []((mu = muFree \/ shutdownPc = "locked") =>
            /\ (tailer # NoTask) <=> (tailCancel # NoTask)
            /\ (tailer # NoTask) <=> (tailCtx # NoTask))
    /\ [][(tailer # NoTask /\ tailer' = NoTask) =>
            /\ tailCancel # NoTask
            /\ tails'[tailCancel].cancelled
            /\ tailCancel' = NoTask /\ tailCtx' = NoTask]_vars

\* C40 witness: with a.mu free a handle is installed, all three fields set,
\* after an earlier handle was cancelled and cleared.
C40_Witness ==
    /\ mu = muFree
    /\ tailer # NoTask /\ tailCancel # NoTask /\ tailCtx # NoTask
    /\ tails[tailer].state = "streaming" /\ ~tails[tailer].cancelled
    /\ \E i \in TaskIds \ {tailer} : tails[i].cancelled

====
